---- MODULE Spec2Model ----
(***************************************************************************)
(* BililiveRecorder-Player: the Player component (playback history, the    *)
(* two playback clocks, the smoothing loop, the per-segment resources, the *)
(* comment overlay and its settings), the history store it keeps in        *)
(* localStorage, the session grouping, and the App component (loads and    *)
(* navigation).  Each part has its own specification over the same         *)
(* variables; a part that a specification does not follow stays in its     *)
(* initial state.                                                          *)
(*                                                                         *)
(* Times are media seconds in the source.  Here a time is a whole number   *)
(* of quarter seconds (UnitsPerSecond to the second), so that the 0.5 s    *)
(* drift limit and the 5 s thresholds are exact.                           *)
(***************************************************************************)
EXTENDS Integers, Sequences, FiniteSets

VARIABLES
    history,              \* localStorage['bili-player-history'], parsed: entries in key order
    now,                  \* Date.now()
    plan,                 \* history store runs: the save requests still to be applied
    lastSave,             \* history store runs: the request applied last, with the map before it
    mounted,              \* a Player is mounted for PlayerSession
    currentSegmentIndex,  \* useState currentSegmentIndex
    isPlaying,            \* useState isPlaying
    currentTime,          \* useState currentTime ("driven by timeupdate")
    smoothTime,           \* useState smoothTime ("driven by RAF")
    initialSeekTimeRef,   \* useRef initialSeekTimeRef (Null or a time)
    rafPending,           \* a requestAnimationFrame(updateSmoothTime) callback is queued
    capturedSmoothTime,   \* the smoothTime that handleTimeUpdate closed over
    vPaused,              \* videoEl.paused
    vTime,                \* videoEl.currentTime
    vLoaded,              \* the element has its metadata (loadedmetadata has fired)
    vEnded,               \* videoEl.ended
    events,               \* media events queued on the element, not yet dispatched
    lag,                  \* media time played since the last timeupdate
    played,               \* media time played since the last saveHistory
    lastEvent,            \* the handler that ran last
    session,              \* session.segments: for each segment its file.ext and whether it has a danmakuFile
    errorMsg,             \* useState errorMsg is set (the error panel replaces the <video>)
    objectUrls,           \* object URLs created and not revoked
    players,              \* mpegts players created and not destroyed
    mpegtsPlayerRef,      \* useRef mpegtsPlayerRef (Null or a player)
    segmentEffect,        \* closure of the segment effect whose cleanup is registered
    danmakuData,          \* useState danmakuData
    loading,              \* calls of parseDanmakuXml not yet settled
    created,              \* object URLs and players created so far
    danmakuSettings,      \* useState danmakuSettings: show, speed
    activeOverlayDanmaku, \* useMemo activeOverlayDanmaku as rendered
    color,                \* d.color of the overlay item that is rendered
    colorHex,             \* colorHex of that item, a sequence of characters (<<>> before the render)
    storedSettings,       \* localStorage[STORAGE_KEY_SETTINGS]: absent, text that is no JSON, or the object it parses to
    files,                \* the video files of one room, by timestamp ascending
    sessions,             \* the sessions they were grouped into: each the indices of its files (<<>> before the grouping)
    storage,              \* localStorage[STORAGE_KEY_HISTORY]: "ok", "unparseable" (JSON.parse throws) or "full" (setItem throws)
    viewState,            \* App useState viewState
    isLoading,            \* App useState isLoading
    streamers,            \* App useState streamers: 0 for [], else the load whose result it is
    selectedStreamer,     \* App useState selectedStreamer
    selectedSession,      \* App useState selectedSession
    needsPermissionGrant, \* App useState needsPermissionGrant
    directoryHandle,      \* idb-keyval 'directoryHandle' (Null or a handle)
    permission,           \* the browser's read permission for the stored handle
    autoLoad,             \* initAutoLoad is still waiting for the stored handle and its permission
    selecting,            \* calls of handleDirectoryHandleSelected in flight, by the await they are at
    loads,                \* loads in flight: calls of loadFromHandle and timers of handleFilesSelected
    started               \* loads started so far

histVars == <<history, now, plan, lastSave>>
playerVars == <<mounted, currentSegmentIndex, isPlaying, currentTime, smoothTime,
                initialSeekTimeRef, rafPending, capturedSmoothTime,
                vPaused, vTime, vLoaded, vEnded, events, lag, played>>
segVars == <<session, errorMsg, objectUrls, players, mpegtsPlayerRef, segmentEffect,
             danmakuData, loading, created>>
overlayVars == <<danmakuSettings, activeOverlayDanmaku>>
colorVars == <<color, colorHex>>
settingsVars == <<storedSettings>>
groupVars == <<files, sessions>>
storageVars == <<storage>>
appVars == <<viewState, isLoading, streamers, selectedStreamer, selectedSession,
             needsPermissionGrant, directoryHandle, permission, autoLoad, selecting,
             loads, started>>
shellVars == <<colorVars, settingsVars, groupVars, storageVars, appVars>>
vars == <<history, now, plan, lastSave, mounted, currentSegmentIndex, isPlaying,
          currentTime, smoothTime, initialSeekTimeRef, rafPending, capturedSmoothTime,
          vPaused, vTime, vLoaded, vEnded, events, lag, played,
          lastEvent, session, errorMsg, objectUrls, players, mpegtsPlayerRef,
          segmentEffect, danmakuData, loading, created, danmakuSettings,
          activeOverlayDanmaku, shellVars>>

----------------------------------------------------------------------------
(* Units and program constants *)

UnitsPerSecond == 4

\* keys.length > 100, sortedKeys.slice(100)
HistoryCap == 100

\* record.time > 5
ResumeThreshold == 5 * UnitsPerSecond

\* Math.abs(videoEl.currentTime - smoothTime) > 0.5
DriftLimit == UnitsPerSecond \div 2

\* Math.floor(videoEl.currentTime) % 5 === 0
SavePeriod == 5

\* <input type="range" min="0.25" max="3.0"> playbackRate, longPressRate 2.0 | 3.0:
\* the media time that passes between two timeupdate events (every 250 ms)
\* is at most 3 x 0.25 s
MaxLag == 3

Null == -1

\* session.id of the session the Player is mounted for
PlayerSession == 1

\* Date.now() when the behaviour starts, later than every stored ts
Epoch == HistoryCap + 2

Min(a, b) == IF a < b THEN a ELSE b
Abs(a) == IF a < 0 THEN -a ELSE a

\* Math.floor of a time, in whole seconds
Floor(t) == t \div UnitsPerSecond

----------------------------------------------------------------------------
(* Bounds of the model *)

\* sessions of the "150 distinct sessions" run
SweepLen == 150
\* length of the other runs of save requests
MaxPlanLen == 2
\* media duration of segment 1, in units: longer than a 5 s save period plus one
\* position-update step
Duration == 24
\* media duration of the other segments, in units
ShortDuration == 4
\* object URLs, players and parse calls made in one run
MaxCreated == 9
\* items of the pool the comment lists are made of
PoolSize == 6
\* latest smoothTime of an overlay run, in units
MaxTime == 106
\* queued media events
MaxQueue == 2
\* segments of the session that is played
NumSegments == 2
\* the packed colours 0..MaxSmallColor are all rendered
MaxSmallColor == 300
\* files of the room that is grouped
MaxFiles == 3
\* loads started in one run of the App
MaxLoads == 2
\* calls of handleDirectoryHandleSelected in flight at a time
MaxSelecting == 1

----------------------------------------------------------------------------
(* The history store: saveHistory and the lookup of the load effect.       *)
(* The stored value is JSON text; JSON.stringify / JSON.parse keep the key *)
(* order and the finite numbers of {time, segmentIndex, ts}, so the parsed *)
(* map is what is modelled: a sequence of entries in Object.keys order     *)
(* (session ids are not array indices, so that order is insertion order).  *)

NoRecord == [time |-> Null, segmentIndex |-> Null, ts |-> Null]

Keys(h) == {h[i].id : i \in DOMAIN h}

\* history[session.id]
loadRecord(h, sid) ==
    IF storage # "unparseable" /\ sid \in Keys(h)
    THEN LET e == h[CHOOSE i \in DOMAIN h : h[i].id = sid]
         IN [time |-> e.time, segmentIndex |-> e.segmentIndex, ts |-> e.ts]
    ELSE NoRecord

\* history[session.id] = { time, segmentIndex: segmentIdx, ts: Date.now() }
Upsert(h, sid, time, segmentIdx, ts) ==
    LET e == [id |-> sid, time |-> time, segmentIndex |-> segmentIdx, ts |-> ts]
    IN IF sid \in Keys(h)
       THEN [i \in DOMAIN h |-> IF h[i].id = sid THEN e ELSE h[i]]
       ELSE Append(h, e)

\* position of entry i in keys.sort((a, b) => history[b].ts - history[a].ts):
\* newest first, the sort is stable
SortedPosition(h, i) ==
    Cardinality({j \in DOMAIN h : \/ h[j].ts > h[i].ts
                                  \/ (h[j].ts = h[i].ts /\ j < i)})

CleanupDropsNewest(h) ==
    IF Len(h) > HistoryCap
    THEN LET pos == [i \in DOMAIN h |->
                        Cardinality({j \in DOMAIN h : \/ h[j].ts < h[i].ts
                                                      \/ (h[j].ts = h[i].ts /\ j < i)})]
             idx == [e \in Keys(h) |-> CHOOSE i \in DOMAIN h : h[i].id = e]
         IN SelectSeq(h, LAMBDA e : pos[idx[e.id]] < HistoryCap)
    ELSE h

\* if (keys.length > 100) { ...; keysToRemove.forEach(k => delete history[k]) }
Cleanup(h) ==
    IF Len(h) > HistoryCap
    THEN LET pos == [i \in DOMAIN h |-> SortedPosition(h, i)]
             idx == [e \in Keys(h) |-> CHOOSE i \in DOMAIN h : h[i].id = e]
         IN SelectSeq(h, LAMBDA e : pos[idx[e.id]] < HistoryCap)
    ELSE h

saveHistoryNoCleanup(h, sid, time, segmentIdx, ts) ==
    Upsert(h, sid, time, segmentIdx, ts)

saveHistoryAppends(h, sid, time, segmentIdx, ts) ==
    Cleanup(Append(h, [id |-> sid, time |-> time, segmentIndex |-> segmentIdx, ts |-> ts]))

\* a save outside try / catch: it writes whatever the storage
saveHistoryUnguarded(h, sid, time, segmentIdx, ts) ==
    Cleanup(Upsert(h, sid, time, segmentIdx, ts))

\* try { ... } catch (e) { }: JSON.parse(raw) or setItem may throw, and then
\* nothing is written
saveHistory(h, sid, time, segmentIdx, ts) ==
    IF storage = "ok" THEN Cleanup(Upsert(h, sid, time, segmentIdx, ts)) ELSE h

----------------------------------------------------------------------------
(* The state of the Player before it is mounted and after it is unmounted: *)
(* the useState / useRef initial values and a video element without source *)

PlayerDefaults ==
    /\ mounted = FALSE
    /\ currentSegmentIndex = 0
    /\ isPlaying = FALSE
    /\ currentTime = 0
    /\ smoothTime = 0
    /\ initialSeekTimeRef = Null
    /\ rafPending = FALSE
    /\ capturedSmoothTime = 0
    /\ vPaused = TRUE
    /\ vTime = 0
    /\ vLoaded = FALSE
    /\ vEnded = FALSE
    /\ events = <<>>
    /\ lag = 0
    /\ played = 0

\* the segment effect has not run, or returned before it created anything
NoEffect == [seg |-> Null, fileUrl |-> Null, player |-> Null]

\* a session of .flv recordings, each with its comment log
FlvSession == [seg \in 0..(NumSegments - 1) |-> [ext |-> "flv", danmakuFile |-> TRUE]]

\* the per-segment resources before the Player is mounted
SegmentDefaults ==
    /\ session = FlvSession
    /\ errorMsg = FALSE
    /\ objectUrls = {}
    /\ players = {}
    /\ mpegtsPlayerRef = Null
    /\ segmentEffect = NoEffect
    /\ danmakuData = <<>>
    /\ loading = {}
    /\ created = 0

\* danmakuSettings.speed is a multiple of the slider step 0.25
SpeedScale == 4

\* the overlay before the first render: the default settings
OverlayDefaults ==
    /\ danmakuSettings = [show |-> TRUE, speed |-> 1 * SpeedScale]
    /\ activeOverlayDanmaku = <<>>

\* no overlay item has been rendered
ColorDefaults ==
    /\ color = 0
    /\ colorHex = <<>>

\* nothing stored under STORAGE_KEY_SETTINGS
NoStoredSettings == [kind |-> "absent"]

SettingsDefaults ==
    /\ storedSettings = NoStoredSettings

\* no files read
GroupDefaults ==
    /\ files = <<>>
    /\ sessions = <<>>

\* the stored history can be read and written
StorageDefaults ==
    /\ storage = "ok"

\* selectedStreamer, selectedSession are null
NoStreamer == [list |-> 0, room |-> 0]
NoSession == [list |-> 0, room |-> 0, session |-> 0]

\* no call of handleDirectoryHandleSelected in flight
NoneSelecting == [get |-> 0, request |-> 0, picker |-> 0]

\* the App state of the useState initial values, nothing in flight; the views
\* of the other runs are shown by an App that has its list
AppDefaults ==
    /\ viewState = "HOME"
    /\ isLoading = FALSE
    /\ streamers = 0
    /\ selectedStreamer = NoStreamer
    /\ selectedSession = NoSession
    /\ needsPermissionGrant = FALSE
    /\ directoryHandle = Null
    /\ permission = "prompt"
    /\ autoLoad = FALSE
    /\ selecting = NoneSelecting
    /\ loads = {}
    /\ started = 0

\* the state outside the Player's clocks, resources and overlay list
ShellDefaults ==
    /\ ColorDefaults
    /\ SettingsDefaults
    /\ GroupDefaults
    /\ StorageDefaults
    /\ AppDefaults

\* no history stored, no Player mounted
CoreDefaults ==
    /\ history = <<>>
    /\ now = Epoch
    /\ plan = [kind |-> "none", reqs |-> <<>>]
    /\ lastSave = [sid |-> 0, time |-> Null, segmentIndex |-> Null, before |-> <<>>]
    /\ PlayerDefaults
    /\ SegmentDefaults
    /\ OverlayDefaults

----------------------------------------------------------------------------
(* Runs of the history store alone: a stored map and a run of save         *)
(* requests (session id, time, segment index) are drawn, and saveHistory   *)
(* is applied to one request after the other.                              *)

NoSave == [sid |-> 0, time |-> Null, segmentIndex |-> Null, before |-> <<>>]

\* a stored map of n sessions 1..n written by earlier saves, no two at the same
\* millisecond; k spreads the save order over the key order (101 is prime)
StoredHistory(n, k) ==
    [i \in 1..n |-> [id |-> i, time |-> 6 + (i % 20), segmentIndex |-> i % 2,
                     ts |-> ((i * k) % 101) + 1]]

StoredHistories ==
    {StoredHistory(0, 1), StoredHistory(HistoryCap - 1, 1), StoredHistory(HistoryCap, 1),
     StoredHistory(HistoryCap, 100), StoredHistory(HistoryCap, 37)}

Request(sid, time, segmentIdx) == [sid |-> sid, time |-> time, segmentIndex |-> segmentIdx]

\* session 1 .. SweepLen, each saved once, one after another
SweepPlan == [i \in 1..SweepLen |-> Request(i, (7 * i) % (Duration + 1), i % 2)]

ProbeRequests ==
    {Request(1, 3, 0), Request(1, 24, 1), Request(HistoryCap, 3, 0),
     Request(HistoryCap + 1, 24, 1), Request(HistoryCap + 2, 3, 0)}

RECURSIVE SeqsUpTo(_, _)
SeqsUpTo(S, n) ==
    IF n = 0 THEN {<<>>}
    ELSE LET shorter == SeqsUpTo(S, n - 1)
         IN shorter \cup {Append(q, x) : q \in shorter, x \in S}

InitH ==
    /\ \/ /\ history = <<>>
          /\ plan = [kind |-> "sweep", reqs |-> SweepPlan]
       \/ /\ history \in StoredHistories
          /\ plan \in {[kind |-> "probe", reqs |-> q] :
                          q \in SeqsUpTo(ProbeRequests, MaxPlanLen) \ {<<>>}}
    /\ now = Epoch
    /\ lastSave = NoSave
    /\ lastEvent = "init"
    /\ ShellDefaults
    /\ PlayerDefaults
    /\ SegmentDefaults
    /\ OverlayDefaults

\* one call of saveHistory(time, segmentIdx) by the Player of session sid.  Two
\* saves of one session may fall into the same millisecond; before another
\* session saves, the user has left one Player and opened the next, and the
\* clock has moved on.
SaveNext ==
    /\ plan.reqs # <<>>
    /\ LET r == Head(plan.reqs)
       IN /\ now' \in (IF r.sid = lastSave.sid THEN {now, now + 1} ELSE {now + 1})
          /\ history' = saveHistory(history, r.sid, r.time, r.segmentIndex, now')
          /\ lastSave' = [sid |-> r.sid, time |-> r.time, segmentIndex |-> r.segmentIndex,
                          before |-> history]
    /\ plan' = [plan EXCEPT !.reqs = Tail(plan.reqs)]
    /\ lastEvent' = "save"
    /\ UNCHANGED <<playerVars, segVars, overlayVars, shellVars>>

NextH == SaveNext

SpecH == InitH /\ [][NextH]_vars

----------------------------------------------------------------------------
(* The Player.  One action is one event handler (or one step of the video  *)
(* element) together with the render and the effects it causes.            *)

Segments == 0..(NumSegments - 1)

\* videoEl.duration of a segment's file
SegDuration(seg) == IF seg = 1 THEN Duration ELSE ShortDuration

\* the RAF effect (deps [isPlaying]): it runs only when isPlaying changed; its
\* cleanup cancels the queued frame, and it requests one when isPlaying is true
RafEffect(wasPlaying, playing, pending) ==
    IF wasPlaying = playing THEN pending ELSE playing

CanResumeFromFive(record) ==
    /\ record # NoRecord
    /\ record.time >= ResumeThreshold
    /\ record.segmentIndex >= 0
    /\ record.segmentIndex < NumSegments

\* the history load effect: resume only from a record with time > 5 and a
\* segment index of this session
CanResume(record) ==
    /\ record # NoRecord
    /\ record.time > ResumeThreshold
    /\ record.segmentIndex >= 0
    /\ record.segmentIndex < NumSegments

\* videoEl.play() in setupPlayer: the element starts (paused = false, 'play' is
\* queued) or the browser rejects the promise and the element stays paused
PlayCalled(ok) ==
    /\ vPaused' = ~ok
    /\ events' = IF ok THEN <<"play">> ELSE <<>>

\* cleanup of the segment effect followed by the effect for segment newIdx.
\* playingAtRender, pendingAtRender: isPlaying and the queued frame in the render
\* that changed the segment; seekRef: initialSeekTimeRef.current
SwitchSegment(newIdx, ok, playingAtRender, pendingAtRender, seekRef) ==
    /\ history' = saveHistory(history, PlayerSession, vTime, currentSegmentIndex, now)
    /\ currentSegmentIndex' = newIdx
    /\ currentTime' = (IF seekRef # Null THEN seekRef ELSE 0)
    /\ smoothTime' = (IF seekRef # Null THEN seekRef ELSE 0)
    /\ capturedSmoothTime' = smoothTime
    /\ initialSeekTimeRef' = seekRef
    /\ isPlaying' = TRUE
    /\ rafPending' = RafEffect(playingAtRender, TRUE, pendingAtRender)
    /\ vTime' = 0
    /\ vLoaded' = FALSE
    /\ vEnded' = FALSE
    /\ PlayCalled(ok)
    /\ lag' = 0
    /\ played' = 0

\* App.handleSelectSession: the Player mounts (one Player lifetime is followed; the
\* earlier ones are in the stored history).  Effects of the first commit:
\* the history effect, then the segment effect for segment 0; when the history
\* effect chose another segment, the segment effect is torn down and run again.
Mount ==
    /\ UNCHANGED <<segVars, overlayVars, shellVars>>
    /\ ~mounted
    /\ now = Epoch
    /\ now' = now + 1
    /\ mounted' = TRUE
    /\ lastEvent' = "mount"
    /\ UNCHANGED <<plan, lastSave>>
    /\ LET record == loadRecord(history, PlayerSession)
           resume == CanResume(record)
           startTime == IF resume THEN record.time ELSE 0
       IN \E ok \in BOOLEAN :
           IF resume /\ record.segmentIndex # 0
           THEN /\ history' = saveHistory(history, PlayerSession, 0, 0, now')
                /\ currentSegmentIndex' = record.segmentIndex
                /\ capturedSmoothTime' = startTime
                /\ currentTime' = startTime
                /\ smoothTime' = startTime
                /\ initialSeekTimeRef' = startTime
                /\ isPlaying' = TRUE
                /\ rafPending' = TRUE
                /\ vTime' = 0
                /\ vLoaded' = FALSE
                /\ vEnded' = FALSE
                /\ PlayCalled(ok)
                /\ lag' = 0
                /\ played' = 0
           ELSE /\ history' = history
                /\ currentSegmentIndex' = 0
                /\ capturedSmoothTime' = 0
                /\ currentTime' = startTime
                /\ smoothTime' = startTime
                /\ initialSeekTimeRef' = (IF resume THEN startTime ELSE Null)
                /\ isPlaying' = TRUE
                /\ rafPending' = TRUE
                /\ vTime' = 0
                /\ vLoaded' = FALSE
                /\ vEnded' = FALSE
                /\ PlayCalled(ok)
                /\ lag' = 0
                /\ played' = 0

\* onBack: the Player unmounts; the effects are cleaned up
Unmount ==
    /\ UNCHANGED <<segVars, overlayVars, shellVars>>
    /\ mounted
    /\ history' = saveHistory(history, PlayerSession, vTime, currentSegmentIndex, now)
    /\ mounted' = FALSE
    /\ currentSegmentIndex' = 0
    /\ isPlaying' = FALSE
    /\ currentTime' = 0
    /\ smoothTime' = 0
    /\ initialSeekTimeRef' = Null
    /\ rafPending' = FALSE
    /\ capturedSmoothTime' = 0
    /\ vPaused' = TRUE
    /\ vTime' = 0
    /\ vLoaded' = FALSE
    /\ vEnded' = FALSE
    /\ events' = <<>>
    /\ lag' = 0
    /\ played' = 0
    /\ lastEvent' = "unmount"
    /\ UNCHANGED <<now, plan, lastSave>>

\* loadedmetadata / METADATA_ARRIVED: onPlayerReady
MetadataLoaded ==
    /\ UNCHANGED <<segVars, overlayVars, shellVars>>
    /\ mounted
    /\ ~vLoaded
    /\ vLoaded' = TRUE
    /\ IF initialSeekTimeRef # Null
       THEN /\ vTime' = Min(initialSeekTimeRef, SegDuration(currentSegmentIndex))
            /\ initialSeekTimeRef' = Null
       ELSE UNCHANGED <<vTime, initialSeekTimeRef>>
    /\ lastEvent' = "metadata"
    /\ UNCHANGED <<history, now, plan, lastSave, mounted, currentSegmentIndex, isPlaying,
                   currentTime, smoothTime, rafPending, capturedSmoothTime,
                   vPaused, vEnded, events, lag, played>>

\* the playing video moves on by one unit; a timeupdate follows before MaxLag
\* units have passed, and queued events are dispatched before the next unit
Advance ==
    /\ UNCHANGED <<segVars, overlayVars, shellVars>>
    /\ mounted
    /\ vLoaded
    /\ ~vPaused
    /\ events = <<>>
    /\ vTime < SegDuration(currentSegmentIndex)
    /\ lag < MaxLag
    /\ vTime' = vTime + 1
    /\ lag' = lag + 1
    /\ played' = played + 1
    /\ lastEvent' = "playback"
    /\ UNCHANGED <<history, now, plan, lastSave, mounted, currentSegmentIndex, isPlaying,
                   currentTime, smoothTime, initialSeekTimeRef, rafPending,
                   capturedSmoothTime, vPaused, vLoaded, vEnded, events>>

\* the playing video reaches its end: the element pauses and queues 'pause', 'ended'
ReachEnd ==
    /\ UNCHANGED <<segVars, overlayVars, shellVars>>
    /\ mounted
    /\ vLoaded
    /\ ~vPaused
    /\ events = <<>>
    /\ vTime = SegDuration(currentSegmentIndex)
    /\ vPaused' = TRUE
    /\ vEnded' = TRUE
    /\ events' = <<"pause", "ended">>
    /\ lastEvent' = "playback"
    /\ UNCHANGED <<history, now, plan, lastSave, mounted, currentSegmentIndex, isPlaying,
                   currentTime, smoothTime, initialSeekTimeRef, rafPending,
                   capturedSmoothTime, vTime, vLoaded, lag, played>>

\* togglePlay: videoRef.current.play() or .pause()
TogglePlay ==
    /\ UNCHANGED <<segVars, overlayVars, shellVars>>
    /\ mounted
    /\ Len(events) < MaxQueue
    /\ IF vPaused
       THEN /\ vPaused' = FALSE
            /\ vEnded' = FALSE
            /\ vTime' = (IF vEnded THEN 0 ELSE vTime)
            /\ events' = Append(events, "play")
       ELSE /\ vPaused' = TRUE
            /\ events' = Append(events, "pause")
            /\ UNCHANGED <<vTime, vEnded>>
    /\ lastEvent' = "togglePlay"
    /\ UNCHANGED <<history, now, plan, lastSave, mounted, currentSegmentIndex, isPlaying,
                   currentTime, smoothTime, initialSeekTimeRef, rafPending,
                   capturedSmoothTime, vLoaded, lag, played>>

\* 'play' listener: setIsPlaying(true)
PlayEvent ==
    /\ UNCHANGED <<segVars, overlayVars, shellVars>>
    /\ mounted
    /\ events # <<>>
    /\ Head(events) = "play"
    /\ events' = Tail(events)
    /\ isPlaying' = TRUE
    /\ rafPending' = RafEffect(isPlaying, TRUE, rafPending)
    /\ lastEvent' = "play"
    /\ UNCHANGED <<history, now, plan, lastSave, mounted, currentSegmentIndex,
                   currentTime, smoothTime, initialSeekTimeRef, capturedSmoothTime, vPaused, vTime, vLoaded, vEnded, lag, played>>

PauseEventNoSave ==
    /\ UNCHANGED <<segVars, overlayVars, shellVars>>
    /\ mounted
    /\ events # <<>>
    /\ Head(events) = "pause"
    /\ events' = Tail(events)
    /\ isPlaying' = FALSE
    /\ rafPending' = RafEffect(isPlaying, FALSE, rafPending)
    /\ lastEvent' = "pause"
    /\ UNCHANGED <<history, played, now, plan, lastSave, mounted, currentSegmentIndex,
                   currentTime, smoothTime, initialSeekTimeRef, capturedSmoothTime,
                   vPaused, vTime, vLoaded, vEnded, lag>>

\* 'pause' listener: setIsPlaying(false); saveHistory(videoEl.currentTime, currentSegmentIndex).
\* The 'play' and 'pause' listeners of earlier segments are still attached (they
\* are removed with a new function object); they run first and write the same
\* position under the earlier segment index, which this listener overwrites.
PauseEvent ==
    /\ UNCHANGED <<segVars, overlayVars, shellVars>>
    /\ mounted
    /\ events # <<>>
    /\ Head(events) = "pause"
    /\ events' = Tail(events)
    /\ isPlaying' = FALSE
    /\ rafPending' = RafEffect(isPlaying, FALSE, rafPending)
    /\ history' = saveHistory(history, PlayerSession, vTime, currentSegmentIndex, now)
    /\ played' = 0
    /\ lastEvent' = "pause"
    /\ UNCHANGED <<now, plan, lastSave, mounted, currentSegmentIndex, currentTime,
                   smoothTime, initialSeekTimeRef, capturedSmoothTime,
                   vPaused, vTime, vLoaded, vEnded, lag>>

\* handleEnded
EndedEvent ==
    /\ UNCHANGED <<segVars, overlayVars, shellVars>>
    /\ mounted
    /\ events # <<>>
    /\ Head(events) = "ended"
    /\ lastEvent' = "ended"
    /\ UNCHANGED <<now, plan, lastSave, mounted>>
    /\ IF currentSegmentIndex < NumSegments - 1
       THEN \E ok \in BOOLEAN :
               SwitchSegment(currentSegmentIndex + 1, ok, FALSE, FALSE, 0)
       ELSE /\ events' = Tail(events)
            /\ isPlaying' = FALSE
            /\ rafPending' = RafEffect(isPlaying, FALSE, rafPending)
            /\ UNCHANGED <<history, currentSegmentIndex, currentTime, smoothTime,
                           initialSeekTimeRef, capturedSmoothTime,
                           vPaused, vTime, vLoaded, vEnded, lag, played>>

TimeUpdateSavesOnPeriodOnly ==
    /\ UNCHANGED <<segVars, overlayVars, shellVars>>
    /\ mounted
    /\ vLoaded
    /\ currentTime' = vTime
    /\ smoothTime' = (IF Abs(vTime - capturedSmoothTime) > DriftLimit
                      THEN vTime ELSE smoothTime)
    /\ IF vTime % (SavePeriod * UnitsPerSecond) = 0
       THEN /\ history' = saveHistory(history, PlayerSession, vTime, currentSegmentIndex, now)
            /\ played' = 0
       ELSE UNCHANGED <<history, played>>
    /\ lag' = 0
    /\ lastEvent' = "timeupdate"
    /\ UNCHANGED <<now, plan, lastSave, mounted, currentSegmentIndex, isPlaying,
                   initialSeekTimeRef, rafPending, capturedSmoothTime,
                   vPaused, vTime, vLoaded, vEnded, events>>

\* handleTimeUpdate, run on the 'timeupdate' events of the loaded video.  The
\* listener was created by the segment effect, so the smoothTime it compares
\* with is the one of the render in which that effect ran (capturedSmoothTime).
TimeUpdate ==
    /\ UNCHANGED <<segVars, overlayVars, shellVars>>
    /\ mounted
    /\ vLoaded
    /\ currentTime' = vTime
    /\ smoothTime' = (IF Abs(vTime - capturedSmoothTime) > DriftLimit
                      THEN vTime ELSE smoothTime)
    /\ IF Floor(vTime) % SavePeriod = 0
       THEN /\ history' = saveHistory(history, PlayerSession, vTime, currentSegmentIndex, now)
            /\ played' = 0
       ELSE UNCHANGED <<history, played>>
    /\ lag' = 0
    /\ lastEvent' = "timeupdate"
    /\ UNCHANGED <<now, plan, lastSave, mounted, currentSegmentIndex, isPlaying,
                   initialSeekTimeRef, rafPending, capturedSmoothTime,
                   vPaused, vTime, vLoaded, vEnded, events>>

TickWritesCurrentTime ==
    /\ UNCHANGED <<segVars, overlayVars, shellVars>>
    /\ mounted
    /\ rafPending
    /\ IF ~vPaused
       THEN /\ smoothTime' = vTime
            /\ currentTime' = vTime
            /\ rafPending' = TRUE
       ELSE /\ rafPending' = FALSE
            /\ UNCHANGED <<smoothTime, currentTime>>
    /\ lastEvent' = "tick"
    /\ UNCHANGED <<history, now, plan, lastSave, mounted, currentSegmentIndex, isPlaying,
                   initialSeekTimeRef, capturedSmoothTime,
                   vPaused, vTime, vLoaded, vEnded, events, lag, played>>

\* updateSmoothTime, the requestAnimationFrame callback
Tick ==
    /\ UNCHANGED <<segVars, overlayVars, shellVars>>
    /\ mounted
    /\ rafPending
    /\ IF ~vPaused
       THEN /\ smoothTime' = vTime
            /\ rafPending' = TRUE
       ELSE /\ rafPending' = FALSE
            /\ UNCHANGED smoothTime
    /\ lastEvent' = "tick"
    /\ UNCHANGED <<history, now, plan, lastSave, mounted, currentSegmentIndex, isPlaying,
                   currentTime, initialSeekTimeRef, capturedSmoothTime,
                   vPaused, vTime, vLoaded, vEnded, events, lag, played>>

\* positions the seek bar is dragged to
SeekTargets == {5}

\* handleSeek
HandleSeek(time) ==
    /\ UNCHANGED <<segVars, overlayVars, shellVars>>
    /\ mounted
    /\ vTime' = time
    /\ vEnded' = FALSE
    /\ currentTime' = time
    /\ smoothTime' = time
    /\ history' = saveHistory(history, PlayerSession, time, currentSegmentIndex, now)
    /\ played' = 0
    /\ lastEvent' = "seek"
    /\ UNCHANGED <<now, plan, lastSave, mounted, currentSegmentIndex, isPlaying,
                   initialSeekTimeRef, rafPending, capturedSmoothTime,
                   vPaused, vLoaded, events, lag>>

\* segment selector button: setCurrentSegmentIndex(idx)
SelectSegment(idx) ==
    /\ UNCHANGED <<segVars, overlayVars, shellVars>>
    /\ mounted
    /\ idx # currentSegmentIndex
    /\ lastEvent' = "selectSegment"
    /\ UNCHANGED <<now, plan, lastSave, mounted>>
    /\ \E ok \in BOOLEAN :
          SwitchSegment(idx, ok, isPlaying, rafPending, initialSeekTimeRef)

\* the stored history when the Player is opened: nothing, another session's
\* record only, or also a record of this session
OtherEntry == [id |-> 2, time |-> 24, segmentIndex |-> 1, ts |-> 1]

StoredRecord(time, seg) == [id |-> PlayerSession, time |-> time, segmentIndex |-> seg, ts |-> 2]

StoredRecords ==
    {StoredRecord(8, 0), StoredRecord(ResumeThreshold, 1)}
    \cup {StoredRecord(ResumeThreshold + 1, seg) : seg \in 0..NumSegments}

Init ==
    /\ history \in {<<OtherEntry>>} \cup {<<OtherEntry, e>> : e \in StoredRecords}
    /\ now = Epoch
    /\ plan = [kind |-> "none", reqs |-> <<>>]
    /\ lastSave = NoSave
    /\ lastEvent = "init"
    /\ ShellDefaults
    /\ PlayerDefaults
    /\ SegmentDefaults
    /\ OverlayDefaults

Next ==
    \/ Mount
    \/ Unmount
    \/ MetadataLoaded
    \/ Advance
    \/ ReachEnd
    \/ TogglePlay
    \/ PlayEvent
    \/ PauseEvent
    \/ EndedEvent
    \/ TimeUpdate
    \/ Tick
    \/ \E time \in SeekTargets : HandleSeek(time)
    \/ \E idx \in Segments : SelectSegment(idx)

Spec == Init /\ [][Next]_vars

\* the same Player over a stored history that cannot be parsed (whatever text
\* it is, no record is read from it) or cannot be written
InitE ==
    /\ \/ /\ storage = "unparseable"
          /\ history = <<>>
       \/ /\ storage = "full"
          /\ history = <<OtherEntry, StoredRecord(ResumeThreshold + 1, 1)>>
    /\ now = Epoch
    /\ plan = [kind |-> "none", reqs |-> <<>>]
    /\ lastSave = NoSave
    /\ lastEvent = "init"
    /\ PlayerDefaults
    /\ SegmentDefaults
    /\ OverlayDefaults
    /\ ColorDefaults
    /\ SettingsDefaults
    /\ GroupDefaults
    /\ AppDefaults

\* the handlers of the Player without the frame callback of the smoothing
\* loop, which neither reads nor writes the stored history
NextE ==
    \/ Mount
    \/ Unmount
    \/ MetadataLoaded
    \/ Advance
    \/ ReachEnd
    \/ TogglePlay
    \/ PlayEvent
    \/ PauseEvent
    \/ EndedEvent
    \/ TimeUpdate
    \/ \E time \in SeekTargets : HandleSeek(time)
    \/ \E idx \in Segments : SelectSegment(idx)

SpecE == InitE /\ [][NextE]_vars

----------------------------------------------------------------------------
(* The per-segment resources of the Player: the object URL and the mpegts  *)
(* player made by the segment effect, the error message, and the comment   *)
(* set loaded by the "Load XML" effect.  One action is one handler with    *)
(* the render and the effects it causes; playback itself is left out.      *)

\* file.ext of a segment
Exts == {"flv", "mp4"}

\* session.segments: any mix of .flv and other files, with or without comment log
Sessions == [Segments -> [ext : Exts, danmakuFile : BOOLEAN]]

\* the items parseDanmakuXml resolves with for the log of segment seg
ParsedLog(seg) == <<[time |-> 0, content |-> "a", trackIndex |-> 0, uid |-> seg]>>

\* what setupPlayer runs into for a .flv file: the player is created, loaded and
\* played; mpegts is missing or createPlayer throws; attachMediaElement or load throws
SetupOutcomes == {"ok", "failed", "loadThrows"}

\* cleanup of the segment effect (after the listeners and saveHistory): destroy
\* the player, then detach the source and revoke the URL.  The first branch
\* leaves mpegtsPlayerRef pointing at the destroyed player; destroy() on such a
\* player either returns or throws (staleThrows), and a throw skips the rest.
CleanupResult(effect, urls, pls, ref, staleThrows) ==
    IF effect = NoEffect
    THEN [urls |-> urls, players |-> pls, ref |-> ref, threw |-> FALSE]
    ELSE IF effect.player # Null
    THEN [urls |-> urls \ {effect.fileUrl}, players |-> pls \ {effect.player},
          ref |-> ref, threw |-> FALSE]
    ELSE IF ref # Null
    THEN IF ref \notin pls /\ staleThrows
         THEN [urls |-> urls, players |-> pls, ref |-> ref, threw |-> TRUE]
         ELSE [urls |-> urls \ {effect.fileUrl}, players |-> pls \ {ref},
               ref |-> Null, threw |-> FALSE]
    ELSE [urls |-> urls \ {effect.fileUrl}, players |-> pls, ref |-> ref, threw |-> FALSE]

\* body of the segment effect for segment seg, run after the cleanup result c.
\* videoAttached: videoRef.current is set, i.e. the last render showed the
\* <video> and not the error panel; n: the ids used so far.
SetupResult(seg, outcome, c, videoAttached, n) ==
    IF ~videoAttached
    THEN [urls |-> c.urls, players |-> c.players, ref |-> c.ref, effect |-> NoEffect,
          errorMsg |-> FALSE, created |-> n]
    ELSE IF session[seg].ext = "flv" /\ outcome = "ok"
    THEN [urls |-> c.urls \cup {n + 1}, players |-> c.players \cup {n + 2}, ref |-> n + 2,
          effect |-> [seg |-> seg, fileUrl |-> n + 1, player |-> n + 2],
          errorMsg |-> FALSE, created |-> n + 2]
    ELSE IF session[seg].ext = "flv" /\ outcome = "loadThrows"
    THEN [urls |-> c.urls \cup {n + 1}, players |-> c.players \cup {n + 2}, ref |-> c.ref,
          effect |-> [seg |-> seg, fileUrl |-> n + 1, player |-> n + 2],
          errorMsg |-> TRUE, created |-> n + 2]
    ELSE [urls |-> c.urls \cup {n + 1}, players |-> c.players, ref |-> c.ref,
          effect |-> [seg |-> seg, fileUrl |-> n + 1, player |-> Null],
          errorMsg |-> (session[seg].ext = "flv"), created |-> n + 1]

\* the "Load XML" effect for segment seg: parseDanmakuXml is called and awaited,
\* or, without a danmakuFile, the comment set is emptied at once
LoadDanmaku(seg, data, calls, n) ==
    IF session[seg].danmakuFile
    THEN [data |-> data, loading |-> calls \cup {[seg |-> seg, call |-> n + 1]}]
    ELSE [data |-> <<>>, loading |-> calls]

\* the Player leaves the tree: the cleanup c has run, the component state is gone;
\* what was not released stays behind
PlayerGone(c) ==
    /\ mounted' = FALSE
    /\ currentSegmentIndex' = 0
    /\ errorMsg' = FALSE
    /\ objectUrls' = c.urls
    /\ players' = c.players
    /\ mpegtsPlayerRef' = Null
    /\ segmentEffect' = NoEffect
    /\ danmakuData' = <<>>
    /\ loading' = {}

\* App renders the Player of a session: first render (segment 0, the <video>
\* shown), then the "Load XML" effect and the segment effect
OpenPlayer ==
    /\ ~mounted
    /\ created + 3 <= MaxCreated
    /\ \E outcome \in SetupOutcomes :
          LET d == LoadDanmaku(0, <<>>, {}, created)
              r == SetupResult(0, outcome,
                               [urls |-> objectUrls, players |-> players, ref |-> Null],
                               TRUE, created + 1)
          IN /\ mounted' = TRUE
             /\ currentSegmentIndex' = 0
             /\ danmakuData' = d.data
             /\ loading' = d.loading
             /\ objectUrls' = r.urls
             /\ players' = r.players
             /\ mpegtsPlayerRef' = r.ref
             /\ segmentEffect' = r.effect
             /\ errorMsg' = r.errorMsg
             /\ created' = r.created
    /\ lastEvent' = "open"
    /\ UNCHANGED <<histVars, isPlaying, currentTime, smoothTime, initialSeekTimeRef,
                   rafPending, capturedSmoothTime, vPaused, vTime, vLoaded, vEnded,
                   events, lag, played, session, overlayVars, shellVars>>

\* currentSegmentIndex becomes idx: render, cleanup of the segment effect, then
\* the "Load XML" effect and the segment effect of the new segment.  A cleanup
\* that throws takes the Player down: the effects of the new segment still run
\* and are cleaned up in the same way.
SwitchTo(idx) ==
    \E outcome \in SetupOutcomes, staleThrows \in BOOLEAN :
       LET c == CleanupResult(segmentEffect, objectUrls, players, mpegtsPlayerRef,
                              staleThrows)
           d == LoadDanmaku(idx, danmakuData, loading, created)
           r == SetupResult(idx, outcome, c, ~errorMsg, created + 1)
       IN IF c.threw
          THEN /\ PlayerGone(CleanupResult(r.effect, r.urls, r.players, r.ref, staleThrows))
               /\ created' = r.created
          ELSE /\ mounted' = TRUE
               /\ currentSegmentIndex' = idx
               /\ danmakuData' = d.data
               /\ loading' = d.loading
               /\ objectUrls' = r.urls
               /\ players' = r.players
               /\ mpegtsPlayerRef' = r.ref
               /\ segmentEffect' = r.effect
               /\ errorMsg' = r.errorMsg
               /\ created' = r.created

\* segment button: setCurrentSegmentIndex(idx)
ChooseSegment(idx) ==
    /\ mounted
    /\ idx # currentSegmentIndex
    /\ created + 3 <= MaxCreated
    /\ SwitchTo(idx)
    /\ lastEvent' = "chooseSegment"
    /\ UNCHANGED <<histVars, isPlaying, currentTime, smoothTime, initialSeekTimeRef,
                   rafPending, capturedSmoothTime, vPaused, vTime, vLoaded, vEnded,
                   events, lag, played, session, overlayVars, shellVars>>

\* handleEnded on a segment that is not the last: setCurrentSegmentIndex(prev + 1)
SegmentEnded ==
    /\ mounted
    /\ segmentEffect # NoEffect
    /\ ~errorMsg
    /\ currentSegmentIndex < NumSegments - 1
    /\ created + 3 <= MaxCreated
    /\ SwitchTo(currentSegmentIndex + 1)
    /\ lastEvent' = "segmentEnded"
    /\ UNCHANGED <<histVars, isPlaying, currentTime, smoothTime, initialSeekTimeRef,
                   rafPending, capturedSmoothTime, vPaused, vTime, vLoaded, vEnded,
                   events, lag, played, session, overlayVars, shellVars>>

\* handleError: the video element reports a playback or decode error
HandleError ==
    /\ mounted
    /\ segmentEffect # NoEffect
    /\ ~errorMsg
    /\ errorMsg' = TRUE
    /\ lastEvent' = "error"
    /\ UNCHANGED <<histVars, playerVars, session, objectUrls, players, mpegtsPlayerRef,
                   segmentEffect, danmakuData, loading, created, overlayVars, shellVars>>

\* a call of parseDanmakuXml settles: setDanmakuData(items), or the catch
\* branch: setDanmakuData([])
LoadDanmakuSettled ==
    /\ mounted
    /\ \E call \in loading, ok \in BOOLEAN :
          /\ danmakuData' = (IF ok THEN ParsedLog(call.seg) ELSE <<>>)
          /\ loading' = loading \ {call}
          /\ lastEvent' = (IF ok THEN "danmakuLoaded" ELSE "danmakuFailed")
    /\ UNCHANGED <<histVars, playerVars, session, errorMsg, objectUrls, players,
                   mpegtsPlayerRef, segmentEffect, created, overlayVars, shellVars>>

\* onBack: the Player unmounts and the cleanup of the segment effect runs
ClosePlayer ==
    /\ mounted
    /\ \E staleThrows \in BOOLEAN :
          PlayerGone(CleanupResult(segmentEffect, objectUrls, players, mpegtsPlayerRef,
                                   staleThrows))
    /\ lastEvent' = "close"
    /\ UNCHANGED <<histVars, isPlaying, currentTime, smoothTime, initialSeekTimeRef,
                   rafPending, capturedSmoothTime, vPaused, vTime, vLoaded, vEnded,
                   events, lag, played, session, created, overlayVars, shellVars>>

InitS ==
    /\ history = <<>>
    /\ now = Epoch
    /\ plan = [kind |-> "none", reqs |-> <<>>]
    /\ lastSave = NoSave
    /\ lastEvent = "init"
    /\ ShellDefaults
    /\ PlayerDefaults
    /\ session \in Sessions
    /\ errorMsg = FALSE
    /\ objectUrls = {}
    /\ players = {}
    /\ mpegtsPlayerRef = Null
    /\ segmentEffect = NoEffect
    /\ danmakuData = <<>>
    /\ loading = {}
    /\ created = 0
    /\ OverlayDefaults

NextS ==
    \/ OpenPlayer
    \/ \E idx \in Segments : ChooseSegment(idx)
    \/ SegmentEnded
    \/ HandleError
    \/ LoadDanmakuSettled
    \/ ClosePlayer

SpecS == InitS /\ [][NextS]_vars

----------------------------------------------------------------------------
(* The overlay scheduler: the useMemo activeOverlayDanmaku and the values   *)
(* the overlay computes for each of its items.  Item times and smoothTime   *)
(* are whole units; durations, progress and positions are fractions n/d     *)
(* with d > 0, computed exactly.                                            *)

RECURSIVE GCD(_, _)
GCD(a, b) == IF b = 0 THEN a ELSE GCD(b, a % b)

\* the fraction n/d (d > 0) in lowest terms
Rat(n, d) == LET g == GCD(Abs(n), d) IN [n |-> n \div g, d |-> d \div g]
RAdd(a, b) == Rat(a.n * b.d + b.n * a.d, a.d * b.d)
RSub(a, b) == Rat(a.n * b.d - b.n * a.d, a.d * b.d)
RMul(a, b) == Rat(a.n * b.n, a.d * b.d)
\* a / b for b > 0
RDiv(a, b) == Rat(a.n * b.d, a.d * b.n)
RLe(a, b) == a.n * b.d <= b.n * a.d
REq(a, b) == a.n * b.d = b.n * a.d

\* a time in units, in seconds
Seconds(t) == Rat(t, UnitsPerSecond)

\* danmakuSettings.speed, a multiple of 0.25
SpeedOf(settings) == Rat(settings.speed, SpeedScale)

\* const BASE_DURATION = 16
BASE_DURATION == 16

\* d.trackIndex % 16
MaxTracks == 16

\* the look-ahead of both filter passes: d.time <= smoothTime + 0.5
LookAhead == Rat(1, 2)

Max(a, b) == IF a >= b THEN a ELSE b

IntrinsicFactorUnclamped(content) ==
    LET len == IF Len(content) = 0 THEN 1 ELSE Len(content)
        ratio == Rat(len - 1, 9)
    IN RSub(Rat(1, 1), RMul(ratio, Rat(1, 4)))

\* len = d.content.length || 1; clampedLen; ratio; intrinsicFactor
IntrinsicFactor(content) ==
    LET len == IF Len(content) = 0 THEN 1 ELSE Len(content)
        clampedLen == Min(Max(len, 1), 10)
        ratio == Rat(clampedLen - 1, 9)
    IN RSub(Rat(1, 1), RMul(ratio, Rat(1, 4)))

\* actualDuration = BASE_DURATION / (danmakuSettings.speed * intrinsicFactor)
ActualDuration(content, settings) ==
    RDiv(Rat(BASE_DURATION, 1), RMul(SpeedOf(settings), IntrinsicFactor(content)))

MaxDurationFastest(settings) ==
    RDiv(Rat(BASE_DURATION, 1), RMul(SpeedOf(settings), Rat(1, 1)))

\* maxDuration = BASE_DURATION / (danmakuSettings.speed * 0.75)
MaxDuration(settings) ==
    RDiv(Rat(BASE_DURATION, 1), RMul(SpeedOf(settings), Rat(3, 4)))

\* d.time >= smoothTime - duration && d.time <= smoothTime + 0.5
InWindow(d, time, duration) ==
    /\ RLe(RSub(Seconds(time), duration), Seconds(d.time))
    /\ RLe(Seconds(d.time), RAdd(Seconds(time), LookAhead))

\* { ...d, actualDuration }
WithDuration(d, settings) ==
    [time |-> d.time, content |-> d.content, trackIndex |-> d.trackIndex, uid |-> d.uid,
     actualDuration |-> ActualDuration(d.content, settings)]

RECURSIVE MapDuration(_, _)
MapDuration(items, settings) ==
    IF items = <<>> THEN <<>>
    ELSE <<WithDuration(Head(items), settings)>> \o MapDuration(Tail(items), settings)

ActiveOverlayFirstPassOnly(data, time, settings) ==
    IF ~settings.show THEN <<>>
    ELSE LET first(d) == InWindow(d, time, MaxDuration(settings))
         IN MapDuration(SelectSeq(data, first), settings)

\* the useMemo activeOverlayDanmaku: filter on the widest window, map to the
\* items with their own duration, filter on each item's own window
ActiveOverlayDanmaku(data, time, settings) ==
    IF ~settings.show THEN <<>>
    ELSE LET first(d) == InWindow(d, time, MaxDuration(settings))
             second(d) == InWindow(d, time, d.actualDuration)
         IN SelectSeq(MapDuration(SelectSeq(data, first), settings), second)

OverlayItemHalfSpan(d, time) ==
    LET progress == RDiv(RSub(Seconds(time), Seconds(d.time)), d.actualDuration)
    IN [track |-> d.trackIndex % MaxTracks,
        progress |-> progress,
        currentX |-> RSub(Rat(100, 1), RMul(progress, Rat(100, 1)))]

OverlayItemTrackByField(d, time) ==
    LET progress == RDiv(RSub(Seconds(time), Seconds(d.time)), d.actualDuration)
    IN [track |-> d.trackIndex,
        progress |-> progress,
        currentX |-> RSub(Rat(100, 1), RMul(progress, Rat(100 - (-100), 1)))]

\* what the overlay computes for the item d of activeOverlayDanmaku: the track
\* (top = track * 6%), timeAlive / duration, and translateX in vw
OverlayItem(d, time) ==
    LET progress == RDiv(RSub(Seconds(time), Seconds(d.time)), d.actualDuration)
    IN [track |-> d.trackIndex % MaxTracks,
        progress |-> progress,
        currentX |-> RSub(Rat(100, 1), RMul(progress, Rat(100 - (-100), 1)))]

StoredItemsKeepDuration(data, settings) == MapDuration(data, settings)

\* danmakuData after the memo has run: filter and map return new arrays and
\* { ...d, actualDuration } a new object, the stored items are not written
StoredItems(data, settings) == data

\* items as parseDanmakuXml delivers them, ordered by time: empty content,
\* contents of 1, 2, 5, 10 and 20 characters
ItemPool ==
    <<[time |-> 0, content |-> "", trackIndex |-> 0, uid |-> 1],
      [time |-> 2, content |-> "abcde", trackIndex |-> 16, uid |-> 2],
      [time |-> 40, content |-> "a", trackIndex |-> 5, uid |-> 3],
      [time |-> 40, content |-> "abcdefghij", trackIndex |-> 17, uid |-> 4],
      [time |-> 42, content |-> "abcdefghijklmnopqrst", trackIndex |-> 33, uid |-> 5],
      [time |-> 100, content |-> "ab", trackIndex |-> 2, uid |-> 6],
      [time |-> 104, content |-> "abc", trackIndex |-> 7, uid |-> 7]>>

\* the item lists: the first items of the pool, up to PoolSize of them
ItemLists == {SubSeq(ItemPool, 1, n) : n \in 0..Min(PoolSize, Len(ItemPool))}

\* the values of the speed slider: min 0.5, max 2, step 0.25
Speeds == (SpeedScale \div 2)..(2 * SpeedScale)

\* positions the seek bar is dragged to (in units)
OverlaySeekTargets == {0, 40, 100}

\* the render after a change: the memo is recomputed from the new values
Rendered ==
    /\ activeOverlayDanmaku' = ActiveOverlayDanmaku(danmakuData', smoothTime', danmakuSettings')
    /\ lastEvent' = "render"
    /\ UNCHANGED <<histVars, mounted, currentSegmentIndex, isPlaying, currentTime,
                   initialSeekTimeRef, rafPending, capturedSmoothTime, vPaused, vTime,
                   vLoaded, vEnded, events, lag, played, session, errorMsg, objectUrls,
                   players, mpegtsPlayerRef, segmentEffect, loading, created, shellVars>>

\* updateSmoothTime: setSmoothTime(videoRef.current.currentTime), one unit later
FrameTick ==
    /\ smoothTime < MaxTime
    /\ smoothTime' = smoothTime + 1
    /\ danmakuData' = StoredItems(danmakuData, danmakuSettings)
    /\ UNCHANGED danmakuSettings
    /\ Rendered

\* handleSeek: setSmoothTime(time)
OverlaySeek(time) ==
    /\ smoothTime' = time
    /\ danmakuData' = StoredItems(danmakuData, danmakuSettings)
    /\ UNCHANGED danmakuSettings
    /\ Rendered

\* speed slider onChange
SetSpeed(speed) ==
    /\ danmakuSettings' = [danmakuSettings EXCEPT !.speed = speed]
    /\ danmakuData' = StoredItems(danmakuData, danmakuSettings')
    /\ UNCHANGED smoothTime
    /\ Rendered

\* show button onClick
ToggleShow ==
    /\ danmakuSettings' = [danmakuSettings EXCEPT !.show = ~danmakuSettings.show]
    /\ danmakuData' = StoredItems(danmakuData, danmakuSettings')
    /\ UNCHANGED smoothTime
    /\ Rendered

\* a render caused by other state (currentTime, volume, ...): same items, same
\* time, same settings
Rerender ==
    /\ danmakuData' = StoredItems(danmakuData, danmakuSettings)
    /\ UNCHANGED <<smoothTime, danmakuSettings>>
    /\ Rendered

InitD ==
    /\ history = <<>>
    /\ now = Epoch
    /\ plan = [kind |-> "none", reqs |-> <<>>]
    /\ lastSave = NoSave
    /\ lastEvent = "init"
    /\ ShellDefaults
    /\ mounted = TRUE
    /\ currentSegmentIndex = 0
    /\ isPlaying = FALSE
    /\ currentTime = 0
    /\ smoothTime = 0
    /\ initialSeekTimeRef = Null
    /\ rafPending = FALSE
    /\ capturedSmoothTime = 0
    /\ vPaused = TRUE
    /\ vTime = 0
    /\ vLoaded = FALSE
    /\ vEnded = FALSE
    /\ events = <<>>
    /\ lag = 0
    /\ played = 0
    /\ session = FlvSession
    /\ errorMsg = FALSE
    /\ objectUrls = {}
    /\ players = {}
    /\ mpegtsPlayerRef = Null
    /\ segmentEffect = NoEffect
    /\ loading = {}
    /\ created = 0
    /\ danmakuData \in ItemLists
    /\ danmakuSettings \in [show : BOOLEAN, speed : Speeds]
    /\ activeOverlayDanmaku = ActiveOverlayDanmaku(danmakuData, smoothTime, danmakuSettings)

NextD ==
    \/ FrameTick
    \/ \E time \in OverlaySeekTargets : OverlaySeek(time)
    \/ \E speed \in Speeds : SetSpeed(speed)
    \/ ToggleShow
    \/ Rerender

SpecD == InitD /\ [][NextD]_vars

----------------------------------------------------------------------------
(* The colour of an overlay item.  A string is a sequence of characters,   *)
(* so that Number.prototype.toString(16) and String.prototype.padStart are *)
(* computed digit by digit.                                                *)

\* the digits Number.prototype.toString(16) writes
HexDigits == <<"0", "1", "2", "3", "4", "5", "6", "7", "8", "9",
               "a", "b", "c", "d", "e", "f">>

\* the packed colour that is written as a literal
White == 16777215

RECURSIVE ToString16(_)
\* n.toString(16) of an integer n >= 0: no leading zeros, "0" for 0
ToString16(n) ==
    IF n < 16 THEN <<HexDigits[n + 1]>>
    ELSE Append(ToString16(n \div 16), HexDigits[(n % 16) + 1])

\* a padStart that pads nothing
PadStartNone(str, targetLength, padString) == str

RECURSIVE PadStart(_, _, _)
\* str.padStart(targetLength, padString) for a one-character padString
PadStart(str, targetLength, padString) ==
    IF Len(str) >= targetLength THEN str
    ELSE PadStart(<<padString>> \o str, targetLength, padString)

\* colorHex = d.color === 16777215 ? '#ffffff' : `#${d.color.toString(16).padStart(6, '0')}`
ColorHex(c) ==
    IF c = White THEN <<"#", "f", "f", "f", "f", "f", "f">>
    ELSE <<"#">> \o PadStart(ToString16(c), 6, "0")

\* packed colours of the items: the small ones, and those next to a power of 16
Colors ==
    (0..MaxSmallColor)
    \cup {4095, 4096, 65535, 65536, 1048575, 1048576, 11259375, 16711680,
          White - 1, White}

\* the overlay renders an item of colour c
RenderItem(c) ==
    /\ color' = c
    /\ colorHex' = ColorHex(c)
    /\ lastEvent' = "renderItem"
    /\ UNCHANGED <<histVars, playerVars, segVars, overlayVars, settingsVars, groupVars,
                   storageVars, appVars>>

InitC ==
    /\ CoreDefaults
    /\ lastEvent = "init"
    /\ color \in Colors
    /\ colorHex = <<>>
    /\ SettingsDefaults
    /\ GroupDefaults
    /\ StorageDefaults
    /\ AppDefaults

NextC == \E c \in Colors : RenderItem(c)

SpecC == InitC /\ [][NextC]_vars

----------------------------------------------------------------------------
(* The settings object: restored from localStorage when the Player is      *)
(* opened, changed through the controls of the settings panel, and written *)
(* back by the save effect after every change.  opacity and size are       *)
(* multiples of their slider step 0.1, speed and playbackRate of 0.25.     *)
(* JSON.stringify / JSON.parse keep booleans and finite numbers, so the    *)
(* stored object is modelled as parsed.                                    *)

\* opacity and size are multiples of the slider step 0.1
TenthScale == 10

SettingsFields == {"show", "opacity", "size", "speed", "playbackRate", "longPressRate"}

\* { show: true, opacity: 1, size: 1.0, speed: 1.0, playbackRate: 1.0, longPressRate: 2.0 }
DefaultSettings ==
    [show |-> TRUE, opacity |-> 1 * TenthScale, size |-> 1 * TenthScale,
     speed |-> 1 * SpeedScale, playbackRate |-> 1 * SpeedScale, longPressRate |-> 2]

\* { ...a, ...b }
Spread(a, b) ==
    [f \in (DOMAIN a) \cup (DOMAIN b) |-> IF f \in DOMAIN b THEN b[f] ELSE a[f]]

\* the useState initializer of danmakuSettings
InitialSettings(stored) ==
    IF stored.kind = "object" THEN Spread(DefaultSettings, stored.value)
    ELSE DefaultSettings

\* const { playbackRate, ...toSave } = danmakuSettings; setItem(JSON.stringify(toSave))
SavedSettings(settings) ==
    [kind |-> "object",
     value |-> [f \in (DOMAIN settings) \ {"playbackRate"} |-> settings[f]]]

\* positions of the range inputs (both ends and one between; every position
\* of the speed input is in Speeds) and the two long-press buttons
OpacityPositions == {1, TenthScale \div 2, TenthScale}
SizePositions == {TenthScale \div 2, TenthScale, 2 * TenthScale}
RatePositions == {1, SpeedScale, 3 * SpeedScale}
LongPressRates == {2, 3}

\* what STORAGE_KEY_SETTINGS may hold when a Player is opened: nothing, text
\* that is no JSON, an object an earlier Player wrote, or an object with a
\* field that no control can produce
StoredByPlayer ==
    {SavedSettings([show |-> sh, opacity |-> o, size |-> sz, speed |-> sp,
                    playbackRate |-> 1 * SpeedScale, longPressRate |-> l]) :
        sh \in BOOLEAN, o \in {1, TenthScale}, sz \in {TenthScale \div 2, 2 * TenthScale},
        sp \in {SpeedScale \div 2, 2 * SpeedScale}, l \in LongPressRates}

StoredForeign ==
    {[kind |-> "object", value |-> v] :
        v \in {[speed |-> 0], [speed |-> 5 * SpeedScale], [opacity |-> 0],
               [size |-> 3 * TenthScale], [longPressRate |-> 5],
               [playbackRate |-> 4 * SpeedScale]}}

StoredSettingsValues ==
    {NoStoredSettings, [kind |-> "text"]} \cup StoredByPlayer \cup StoredForeign

\* the Player state the settings do not touch
SettingsFrame ==
    UNCHANGED <<histVars, currentSegmentIndex, isPlaying, currentTime, smoothTime,
                initialSeekTimeRef, rafPending, capturedSmoothTime, vPaused, vTime,
                vLoaded, vEnded, events, lag, played, segVars, activeOverlayDanmaku,
                colorVars, groupVars, storageVars, appVars>>

\* the Player is opened: the initializer reads the stored settings, the save
\* effect writes them back
PlayerOpened ==
    /\ ~mounted
    /\ mounted' = TRUE
    /\ danmakuSettings' = InitialSettings(storedSettings)
    /\ storedSettings' = SavedSettings(danmakuSettings')
    /\ lastEvent' = "opened"
    /\ SettingsFrame

\* the Player is closed; the stored settings stay
PlayerClosed ==
    /\ mounted
    /\ mounted' = FALSE
    /\ lastEvent' = "closed"
    /\ UNCHANGED <<danmakuSettings, storedSettings>>
    /\ SettingsFrame

\* a control calls setDanmakuSettings({ ...danmakuSettings, [field]: value });
\* the save effect runs after the render
SettingChanged(field, value) ==
    /\ mounted
    /\ danmakuSettings' = Spread(danmakuSettings, [f \in {field} |-> value])
    /\ storedSettings' = SavedSettings(danmakuSettings')
    /\ lastEvent' = field
    /\ UNCHANGED mounted
    /\ SettingsFrame

OpacityChanged(value) == SettingChanged("opacity", value)
SizeChanged(value) == SettingChanged("size", value)
SpeedChanged(value) == SettingChanged("speed", value)
PlaybackRateChanged(value) == SettingChanged("playbackRate", value)
LongPressRateChanged(rate) == SettingChanged("longPressRate", rate)
\* setDanmakuSettings(s => ({ ...s, show: !s.show }))
ShowToggled == SettingChanged("show", ~danmakuSettings.show)

InitG ==
    /\ CoreDefaults
    /\ lastEvent = "init"
    /\ ColorDefaults
    /\ GroupDefaults
    /\ StorageDefaults
    /\ AppDefaults
    /\ storedSettings \in StoredSettingsValues

NextG ==
    \/ PlayerOpened
    \/ PlayerClosed
    \/ \E v \in OpacityPositions : OpacityChanged(v)
    \/ \E v \in SizePositions : SizeChanged(v)
    \/ \E v \in Speeds : SpeedChanged(v)
    \/ \E v \in RatePositions : PlaybackRateChanged(v)
    \/ \E rate \in LongPressRates : LongPressRateChanged(rate)
    \/ ShowToggled

SpecG == InitG /\ [][NextG]_vars

----------------------------------------------------------------------------
(* Session grouping (processRecordingFiles of utils/parser, which is not   *)
(* among the source files): the files of one room, sorted by timestamp,    *)
(* are merged into sessions as the design describes it.  Timestamps and    *)
(* durations are whole minutes.                                            *)

\* "same title, gap < 60 mins"
SessionGapMinutes == 60

\* a merge that looks at the title only
MergesByTitle(prev, next) == next.title = prev.title

\* the next file continues the session of the prior file
Merges(prev, next) ==
    /\ next.title = prev.title
    /\ next.timestamp - (prev.timestamp + prev.duration) < SessionGapMinutes

RECURSIVE GroupPrefix(_, _)
\* the sessions of the first n files of fs
GroupPrefix(fs, n) ==
    IF n = 0 THEN <<>>
    ELSE IF n = 1 THEN <<<<1>>>>
    ELSE LET before == GroupPrefix(fs, n - 1)
             open == before[Len(before)]
         IN IF Merges(fs[open[Len(open)]], fs[n])
            THEN [before EXCEPT ![Len(before)] = Append(open, n)]
            ELSE Append(before, <<n>>)

GroupSessions(fs) == GroupPrefix(fs, Len(fs))

Titles == {"A", "B"}
FileDurations == {30, 90}
\* minutes between the end of a file and the timestamp of the next one
Gaps == {0, 59, 60, 61}

RECURSIVE FileListsOf(_)
\* the lists of n files: the first at minute 0, every next one a gap after the
\* end of the one before it
FileListsOf(n) ==
    IF n = 0 THEN {<<>>}
    ELSE IF n = 1
    THEN {<<[timestamp |-> 0, duration |-> d, title |-> t]>> : t \in Titles, d \in FileDurations}
    ELSE UNION {{Append(fs, [timestamp |-> fs[n - 1].timestamp + fs[n - 1].duration + g,
                             duration |-> d, title |-> t]) :
                    t \in Titles, d \in FileDurations, g \in Gaps} :
                fs \in FileListsOf(n - 1)}

\* the lists of 1..most files
FileListsUpTo(most) == UNION {FileListsOf(n) : n \in 1..most}

\* processRecordingFiles groups the files of the room
ProcessRecordingFiles ==
    /\ sessions = <<>>
    /\ sessions' = GroupSessions(files)
    /\ lastEvent' = "grouped"
    /\ UNCHANGED <<histVars, playerVars, segVars, overlayVars, colorVars, settingsVars,
                   storageVars, appVars, files>>

InitF ==
    /\ CoreDefaults
    /\ lastEvent = "init"
    /\ ColorDefaults
    /\ SettingsDefaults
    /\ StorageDefaults
    /\ AppDefaults
    /\ files \in FileListsUpTo(MaxFiles)
    /\ sessions = <<>>

NextF == ProcessRecordingFiles

SpecF == InitF /\ [][NextF]_vars

----------------------------------------------------------------------------
(* The App component: the automatic load at startup, the directory and     *)
(* file selection of the Home page, the loads they start, and the          *)
(* navigation between the three views.  An async function is followed      *)
(* from await to await; a load in flight is a call of loadFromHandle, or   *)
(* a timer of handleFilesSelected with the work it runs, that has not      *)
(* reached its finally.  The Player that the PLAYER view renders is        *)
(* followed in the other runs.                                             *)

\* the streamers of a loaded list, and the sessions of a streamer
Rooms == {1, 2}

\* the App does not touch the state of a Player
AppFrame ==
    UNCHANGED <<histVars, playerVars, segVars, overlayVars, colorVars, settingsVars,
                groupVars, storageVars>>

\* calls of handleDirectoryHandleSelected in flight
Selecting == selecting.get + selecting.request + selecting.picker

\* setIsLoading(true) at the start of a load of the given kind
LoadStarted(kind) ==
    /\ started < MaxLoads
    /\ started' = started + 1
    /\ loads' = loads \cup {[id |-> started + 1, kind |-> kind]}
    /\ isLoading' = TRUE

\* an automatic load that does not look at the permission
AutoLoadUnqueried(ok) ==
    /\ autoLoad
    /\ autoLoad' = FALSE
    /\ IF ok /\ directoryHandle # Null
       THEN /\ LoadStarted("handle")
            /\ lastEvent' = "autoLoad"
       ELSE /\ lastEvent' = (IF ok THEN "noHandle" ELSE "autoLoadFailed")
            /\ UNCHANGED <<isLoading, loads, started>>
    /\ UNCHANGED <<viewState, streamers, selectedStreamer, selectedSession,
                   needsPermissionGrant, directoryHandle, permission, selecting>>
    /\ AppFrame

\* initAutoLoad after get('directoryHandle') and handle.queryPermission: it
\* loads when the permission is granted, sets needsPermissionGrant when it is
\* not, does nothing without a handle; whatever throws is caught
AutoLoadResolved(ok) ==
    /\ autoLoad
    /\ autoLoad' = FALSE
    /\ IF ~ok
       THEN /\ lastEvent' = "autoLoadFailed"
            /\ UNCHANGED <<isLoading, needsPermissionGrant, loads, started>>
       ELSE IF directoryHandle = Null
       THEN /\ lastEvent' = "noHandle"
            /\ UNCHANGED <<isLoading, needsPermissionGrant, loads, started>>
       ELSE IF permission = "granted"
       THEN /\ LoadStarted("handle")
            /\ lastEvent' = "autoLoad"
            /\ UNCHANGED needsPermissionGrant
       ELSE /\ needsPermissionGrant' = TRUE
            /\ lastEvent' = "needsGrant"
            /\ UNCHANGED <<isLoading, loads, started>>
    /\ UNCHANGED <<viewState, streamers, selectedStreamer, selectedSession,
                   directoryHandle, permission, selecting>>
    /\ AppFrame

\* the user clicks "select folder" / "restore" on the Home page:
\* handleDirectoryHandleSelected runs up to its first await
DirectoryHandleSelected ==
    /\ viewState = "HOME"
    /\ Selecting < MaxSelecting
    /\ selecting' = [selecting EXCEPT !.get = @ + 1]
    /\ lastEvent' = "selectDirectory"
    /\ UNCHANGED <<viewState, isLoading, streamers, selectedStreamer, selectedSession,
                   needsPermissionGrant, directoryHandle, permission, autoLoad,
                   loads, started>>
    /\ AppFrame

\* get('directoryHandle') of handleDirectoryHandleSelected settles: with a
\* handle requestPermission is called, without one showDirectoryPicker
HandleRead(ok) ==
    /\ selecting.get > 0
    /\ IF ~ok
       THEN /\ selecting' = [selecting EXCEPT !.get = @ - 1]
            /\ lastEvent' = "handleReadFailed"
       ELSE IF directoryHandle # Null
       THEN /\ selecting' = [selecting EXCEPT !.get = @ - 1, !.request = @ + 1]
            /\ lastEvent' = "requestPermission"
       ELSE /\ selecting' = [selecting EXCEPT !.get = @ - 1, !.picker = @ + 1]
            /\ lastEvent' = "showPicker"
    /\ UNCHANGED <<viewState, isLoading, streamers, selectedStreamer, selectedSession,
                   needsPermissionGrant, directoryHandle, permission, autoLoad,
                   loads, started>>
    /\ AppFrame

\* requestPermission settles: granted starts the load, denied opens the
\* picker, an exception ends the handler in its catch
PermissionAnswered(answer) ==
    /\ selecting.request > 0
    /\ CASE answer = "granted" ->
              /\ permission' = "granted"
              /\ selecting' = [selecting EXCEPT !.request = @ - 1]
              /\ LoadStarted("handle")
              /\ lastEvent' = "permissionGranted"
         [] answer = "denied" ->
              /\ permission' = "denied"
              /\ selecting' = [selecting EXCEPT !.request = @ - 1, !.picker = @ + 1]
              /\ lastEvent' = "permissionDenied"
              /\ UNCHANGED <<isLoading, loads, started>>
         [] OTHER ->
              /\ selecting' = [selecting EXCEPT !.request = @ - 1]
              /\ lastEvent' = "permissionFailed"
              /\ UNCHANGED <<permission, isLoading, loads, started>>
    /\ UNCHANGED <<viewState, streamers, selectedStreamer, selectedSession,
                   needsPermissionGrant, directoryHandle, autoLoad>>
    /\ AppFrame

\* showDirectoryPicker settles: the picked handle is stored and loaded; an
\* abort or another exception ends the handler in its catch
PickerSettled(outcome) ==
    /\ selecting.picker > 0
    /\ selecting' = [selecting EXCEPT !.picker = @ - 1]
    /\ IF outcome = "picked"
       THEN /\ directoryHandle' = 1
            /\ permission' = "granted"
            /\ LoadStarted("handle")
            /\ lastEvent' = "picked"
       ELSE /\ lastEvent' = (IF outcome = "aborted" THEN "pickerAborted" ELSE "pickerFailed")
            /\ UNCHANGED <<directoryHandle, permission, isLoading, loads, started>>
    /\ UNCHANGED <<viewState, streamers, selectedStreamer, selectedSession,
                   needsPermissionGrant, autoLoad>>
    /\ AppFrame

\* handleFilesSelected: the legacy file input changed
FilesSelected(nonEmpty) ==
    /\ viewState = "HOME"
    /\ IF nonEmpty
       THEN LoadStarted("files")
       ELSE UNCHANGED <<isLoading, loads, started>>
    /\ lastEvent' = "selectFiles"
    /\ UNCHANGED <<viewState, streamers, selectedStreamer, selectedSession,
                   needsPermissionGrant, directoryHandle, permission, autoLoad, selecting>>
    /\ AppFrame

\* a settle that empties the list when the load failed
LoadSettledResets(l, ok) ==
    /\ l \in loads
    /\ loads' = loads \ {l}
    /\ isLoading' = FALSE
    /\ streamers' = (IF ok THEN l.id ELSE 0)
    /\ needsPermissionGrant' = (IF ok /\ l.kind = "handle" THEN FALSE ELSE needsPermissionGrant)
    /\ lastEvent' = (IF ok THEN "loaded" ELSE "loadFailed")
    /\ UNCHANGED <<viewState, selectedStreamer, selectedSession, directoryHandle,
                   permission, autoLoad, selecting, started>>
    /\ AppFrame

\* a load reaches its finally: after scanDirectoryHandle and
\* processRecordingFiles (loadFromHandle) or processRecordingFiles alone
\* (handleFilesSelected) the list is set, and needsPermissionGrant cleared by
\* loadFromHandle; after an exception nothing is set
LoadSettled(l, ok) ==
    /\ l \in loads
    /\ loads' = loads \ {l}
    /\ isLoading' = FALSE
    /\ IF ok
       THEN /\ streamers' = l.id
            /\ needsPermissionGrant' = (IF l.kind = "handle" THEN FALSE ELSE needsPermissionGrant)
            /\ lastEvent' = "loaded"
       ELSE /\ lastEvent' = "loadFailed"
            /\ UNCHANGED <<streamers, needsPermissionGrant>>
    /\ UNCHANGED <<viewState, selectedStreamer, selectedSession, directoryHandle,
                   permission, autoLoad, selecting, started>>
    /\ AppFrame

\* a back handler that clears the whole selection
BackClearsSelection(view) ==
    /\ viewState' = view
    /\ selectedStreamer' = NoStreamer
    /\ selectedSession' = NoSession

\* handleBackToHome (view "HOME"), handleBackToStreamer (view "STREAMER")
Back(view) ==
    /\ viewState' = view
    /\ IF view = "HOME"
       THEN selectedStreamer' = NoStreamer /\ UNCHANGED selectedSession
       ELSE selectedSession' = NoSession /\ UNCHANGED selectedStreamer

\* handleSelectStreamer, called by the Home page with a streamer of its list
SelectStreamer(room) ==
    /\ viewState = "HOME"
    /\ streamers # 0
    /\ selectedStreamer' = [list |-> streamers, room |-> room]
    /\ viewState' = "STREAMER"
    /\ lastEvent' = "selectStreamer"
    /\ UNCHANGED <<isLoading, streamers, selectedSession, needsPermissionGrant,
                   directoryHandle, permission, autoLoad, selecting, loads, started>>
    /\ AppFrame

\* handleSelectSession, called by the StreamerPage with a session of its streamer
SelectSession(sess) ==
    /\ viewState = "STREAMER"
    /\ selectedStreamer # NoStreamer
    /\ selectedSession' = [list |-> selectedStreamer.list, room |-> selectedStreamer.room,
                           session |-> sess]
    /\ viewState' = "PLAYER"
    /\ lastEvent' = "selectSession"
    /\ UNCHANGED <<isLoading, streamers, selectedStreamer, needsPermissionGrant,
                   directoryHandle, permission, autoLoad, selecting, loads, started>>
    /\ AppFrame

\* handleBackToHome, the onBack of the StreamerPage
BackToHome ==
    /\ viewState = "STREAMER"
    /\ selectedStreamer # NoStreamer
    /\ Back("HOME")
    /\ lastEvent' = "backToHome"
    /\ UNCHANGED <<isLoading, streamers, needsPermissionGrant, directoryHandle,
                   permission, autoLoad, selecting, loads, started>>
    /\ AppFrame

\* handleBackToStreamer, the onBack of the Player
BackToStreamer ==
    /\ viewState = "PLAYER"
    /\ selectedSession # NoSession
    /\ Back("STREAMER")
    /\ lastEvent' = "backToStreamer"
    /\ UNCHANGED <<isLoading, streamers, needsPermissionGrant, directoryHandle,
                   permission, autoLoad, selecting, loads, started>>
    /\ AppFrame

\* the first render of the App: the mount effect has called initAutoLoad, which
\* waits for the stored handle
InitA ==
    /\ CoreDefaults
    /\ lastEvent = "init"
    /\ ColorDefaults
    /\ SettingsDefaults
    /\ GroupDefaults
    /\ StorageDefaults
    /\ viewState = "HOME"
    /\ isLoading = FALSE
    /\ streamers = 0
    /\ selectedStreamer = NoStreamer
    /\ selectedSession = NoSession
    /\ needsPermissionGrant = FALSE
    /\ \/ directoryHandle = Null /\ permission = "prompt"
       \/ directoryHandle = 1 /\ permission \in {"granted", "prompt", "denied"}
    /\ autoLoad = TRUE
    /\ selecting = NoneSelecting
    /\ loads = {}
    /\ started = 0

NextA ==
    \/ \E ok \in BOOLEAN : AutoLoadResolved(ok)
    \/ DirectoryHandleSelected
    \/ \E ok \in BOOLEAN : HandleRead(ok)
    \/ \E answer \in {"granted", "denied", "throws"} : PermissionAnswered(answer)
    \/ \E outcome \in {"picked", "aborted", "throws"} : PickerSettled(outcome)
    \/ \E nonEmpty \in BOOLEAN : FilesSelected(nonEmpty)
    \/ \E l \in loads : \E ok \in BOOLEAN : LoadSettled(l, ok)
    \/ \E room \in Rooms : SelectStreamer(room)
    \/ \E sess \in Rooms : SelectSession(sess)
    \/ BackToHome
    \/ BackToStreamer

SpecA == InitA /\ [][NextA]_vars

----------------------------------------------------------------------------
(* Claims about the history store, checked under SpecH *)

Entries(h) == {h[i] : i \in DOMAIN h}

\* the sessions tracked right after the last save wrote its record and before
\* any entry was removed: the earlier entries of the other sessions and the
\* record just written
TrackedAfterSave ==
    {e \in Entries(lastSave.before) : e.id # lastSave.sid}
    \cup {[id |-> lastSave.sid, time |-> lastSave.time,
           segmentIndex |-> lastSave.segmentIndex, ts |-> now]}

\* C1: after any sequence of saveHistory calls, starting from a stored history
\* of at most 100 entries, the stored history holds at most 100 sessions.
C1_AtMostCapSessions == Len(history) <= HistoryCap

\* C1 witness: a save of a session not yet tracked arrived at a full map
C1_Witness ==
    /\ lastSave.sid # 0
    /\ Len(lastSave.before) = HistoryCap
    /\ lastSave.sid \notin Keys(lastSave.before)
    /\ Len(history) = HistoryCap

\* C2: when a save makes the tracked sessions exceed 100, exactly the least
\* recently saved entries are removed, down to 100: what is left are 100 of the
\* tracked entries, unchanged, each saved later than every removed one; and
\* saving sessions 1..150 one after another leaves exactly the 100 saved last.
C2_EvictsLeastRecentlySaved ==
    /\ (lastSave.sid # 0 /\ Cardinality(TrackedAfterSave) > HistoryCap) =>
          /\ Entries(history) \subseteq TrackedAfterSave
          /\ Cardinality(Entries(history)) = HistoryCap
          /\ Len(history) = HistoryCap
          /\ \A k \in Entries(history) : \A r \in TrackedAfterSave \ Entries(history) :
                k.ts > r.ts
    /\ plan.kind = "sweep" =>
          LET done == SweepLen - Len(plan.reqs)
          IN Keys(history) = {i \in 1..done : i > done - HistoryCap}

\* C2 witness: the 150 sessions have all been saved
C2_Witness ==
    /\ plan.kind = "sweep"
    /\ plan.reqs = <<>>
    /\ lastSave.sid = SweepLen
    /\ Len(lastSave.before) = HistoryCap

\* C3: a save is an upsert.  Right after it the session has exactly one stored
\* record, holding the saved time and segment index, and the lookup returns it;
\* the records of the other sessions are as before or gone; a session that had no
\* record and was not the one saved has none, and neither has a removed one.
C3_SaveIsUpsert ==
    lastSave.sid # 0 =>
       /\ loadRecord(history, lastSave.sid) =
             [time |-> lastSave.time, segmentIndex |-> lastSave.segmentIndex, ts |-> now]
       /\ Cardinality({i \in DOMAIN history : history[i].id = lastSave.sid}) = 1
       /\ \A s \in 1..(SweepLen + 2) :
             s # lastSave.sid =>
                \/ loadRecord(history, s) = loadRecord(lastSave.before, s)
                \/ /\ s \in Keys(lastSave.before)
                   /\ s \notin Keys(history)
                   /\ loadRecord(history, s) = NoRecord

\* C3 witness: a save replaced an earlier record of the same session by another
C3_Witness ==
    /\ lastSave.sid # 0
    /\ lastSave.sid \in Keys(lastSave.before)
    /\ loadRecord(lastSave.before, lastSave.sid).time # lastSave.time
    /\ loadRecord(history, lastSave.sid).time = lastSave.time

----------------------------------------------------------------------------
(* Claims about the Player, checked under Spec *)

StoredPosition == loadRecord(history, PlayerSession)

\* C4: when a session is opened, the segment index and the seek target are
\* taken from the stored record only if its saved time is > 5 s; with a saved
\* time <= 5 s, or without a record, playback starts at segment 0, time 0, and
\* no seek target is set.
C4_ResumeOnlyAboveFiveSeconds ==
    [][(~mounted /\ mounted') =>
          LET record == loadRecord(history, PlayerSession)
          IN /\ (initialSeekTimeRef' # Null \/ currentSegmentIndex' # 0) =>
                   /\ record # NoRecord
                   /\ record.time > 5 * UnitsPerSecond
                   /\ initialSeekTimeRef' = record.time
                   /\ currentTime' = record.time
                   /\ currentSegmentIndex' = record.segmentIndex
             /\ (record = NoRecord \/ record.time <= 5 * UnitsPerSecond) =>
                   /\ currentSegmentIndex' = 0
                   /\ currentTime' = 0
                   /\ initialSeekTimeRef' = Null]_vars

\* C4 witness: the Player has just been opened on a record saved at 5.25 s in
\* segment 1, and resumes there
C4_Witness ==
    /\ lastEvent = "mount"
    /\ currentSegmentIndex = 1
    /\ initialSeekTimeRef = 5 * UnitsPerSecond + 1
    /\ currentTime = initialSeekTimeRef

C7_OnlyTimeUpdateWrites ==
    [][currentTime' # currentTime => lastEvent' = "timeupdate"]_vars

\* C7 as amended: currentTime is written by the timeupdate handler, by
\* handleSeek and by the segment effect (on mount and on every segment change);
\* it ends with the component.  The RAF tick, the play and pause listeners, the
\* metadata listener and the history save only read it.
C7_WritersOfCurrentTime ==
    [][currentTime' # currentTime =>
          lastEvent' \in {"timeupdate", "seek", "mount", "selectSegment", "ended",
                          "unmount"}]_vars

\* C7 witness: handleSeek has just written currentTime while the video played on
\* since the last timeupdate
C7_Witness ==
    /\ lastEvent = "seek"
    /\ currentTime \in SeekTargets
    /\ currentTime = vTime
    /\ lag > 0

\* C8: after every playback-position update at which the position and the
\* smoothed clock differ by more than 0.5 s, the smoothed clock equals the
\* position (so after the update they never differ by more than 0.5 s).
C8_ResyncAfterPositionUpdate ==
    lastEvent = "timeupdate" => Abs(vTime - smoothTime) <= DriftLimit

\* C9: a tick that runs while the video is paused neither updates the smoothed
\* clock nor reschedules itself; after a pause has been handled no tick is
\* pending; and none becomes pending until playback starts again.
C9_NoScheduledWorkWhilePaused ==
    [][/\ (lastEvent' = "tick" /\ vPaused) =>
             (smoothTime' = smoothTime /\ ~rafPending')
       /\ lastEvent' = "pause" => ~rafPending'
       /\ (mounted /\ vPaused /\ ~isPlaying /\ events = <<>> /\ rafPending') =>
             ~vPaused']_vars

\* C10: whenever the video is playing (and its events have been dispatched) a
\* smoothing tick is pending.
C10_TickPendingWhilePlaying ==
    (mounted /\ ~vPaused /\ events = <<>>) => rafPending

----------------------------------------------------------------------------
(* Claims about the per-segment resources, checked under SpecS *)

\* C11: every object URL and every mpegts player that exists belongs to the
\* segment effect of the current segment: whatever an earlier segment created
\* was released before the current one was set up, whichever way the earlier
\* one ended, and nothing is left after the Player has unmounted.
C11_OutgoingResourcesReleased ==
    /\ objectUrls \subseteq
          (IF mounted /\ segmentEffect # NoEffect THEN {segmentEffect.fileUrl} ELSE {})
    /\ players \subseteq
          (IF mounted /\ segmentEffect # NoEffect THEN {segmentEffect.player} ELSE {})

\* C12: while a segment is the current one, the active comment set is empty or
\* is the set parsed from that segment's log, never the set of another segment.
C12_CommentSetOfCurrentSegment ==
    mounted => danmakuData \in {<<>>, ParsedLog(currentSegmentIndex)}

\* C13: selecting another segment while an error message is shown sets up
\* playback for the selected segment (its object URL, transport binding and
\* listeners), and the message is cleared unless that setup fails itself.
C13_SelectAfterErrorSetsUp ==
    [][(mounted /\ errorMsg /\ lastEvent' = "chooseSegment" /\ mounted') =>
          /\ segmentEffect' # NoEffect
          /\ segmentEffect'.seg = currentSegmentIndex']_vars

\* C14: for a current segment without a comment log the active comment set is
\* empty; a failed read or parse leaves the comment set empty and leaves what
\* the segment effect has set up (player, object URL, error state) as it is.
C14_NoCommentsVideoStillPlays ==
    [][/\ (mounted' /\ ~session[currentSegmentIndex'].danmakuFile) => danmakuData' = <<>>
       /\ lastEvent' = "danmakuFailed" =>
             /\ danmakuData' = <<>>
             /\ UNCHANGED <<segmentEffect, objectUrls, players, errorMsg>>]_vars

----------------------------------------------------------------------------
(* Claims about the overlay scheduler, checked under SpecD *)

\* content length as the duration model counts it: empty counts as 1, at most 10
ClampedLen(content) ==
    IF Len(content) = 0 THEN 1 ELSE IF Len(content) > 10 THEN 10 ELSE Len(content)

\* D = 16 / (speed x (1 - (clampedLen - 1) / 9 x 0.25)) as one fraction:
\* 16 x SpeedScale x 36 / (speed units x (37 - clampedLen))
DurationNumerator == BASE_DURATION * SpeedScale * 36
DurationDenominator(content, settings) == settings.speed * (37 - ClampedLen(content))

\* (smoothTime - t) <= D and t <= smoothTime + 0.5, in whole numbers
InExactWindow(d, time, settings) ==
    /\ (time - d.time) * DurationDenominator(d.content, settings)
          <= DurationNumerator * UnitsPerSecond
    /\ 2 * (d.time - time) <= UnitsPerSecond

Uids(items) == [i \in DOMAIN items |-> items[i].uid]

\* C15: for every stored item and every speed setting the item's duration is
\* D = 16 / (speed x intrinsicFactor), intrinsicFactor = 1 - (clamp(len,1,10) - 1)/9 x 0.25,
\* empty content counting as length 1; intrinsicFactor is 1 at len 1 and 0.75
\* at len 10 and len 20; D = 16 at speed 1.0 and D = 8 at speed 2.0 with len 1.
C15_DurationFormula ==
    /\ \A i \in DOMAIN danmakuData :
          LET D == ActualDuration(danmakuData[i].content, danmakuSettings)
          IN /\ D.d > 0
             /\ D.n * DurationDenominator(danmakuData[i].content, danmakuSettings)
                   = DurationNumerator * D.d
    /\ \A i \in DOMAIN activeOverlayDanmaku :
          REq(activeOverlayDanmaku[i].actualDuration,
              ActualDuration(activeOverlayDanmaku[i].content, danmakuSettings))
    /\ REq(IntrinsicFactor(""), Rat(1, 1))
    /\ REq(IntrinsicFactor("a"), Rat(1, 1))
    /\ REq(IntrinsicFactor("abcdefghij"), Rat(3, 4))
    /\ REq(IntrinsicFactor("abcdefghijklmnopqrst"), Rat(3, 4))
    /\ REq(ActualDuration("a", [show |-> TRUE, speed |-> 1 * SpeedScale]), Rat(16, 1))
    /\ REq(ActualDuration("a", [show |-> TRUE, speed |-> 2 * SpeedScale]), Rat(8, 1))

\* C15 witness: the item of 20 characters is on the overlay at speed 2.0 with
\* the duration 16 / (2 x 0.75)
C15_Witness ==
    /\ danmakuSettings.speed = 2 * SpeedScale
    /\ \E i \in DOMAIN activeOverlayDanmaku :
          /\ Len(activeOverlayDanmaku[i].content) = 20
          /\ REq(activeOverlayDanmaku[i].actualDuration, Rat(32, 3))

\* C16: for the speeds of the slider, the overlay's visible items are exactly
\* the stored items with smoothTime - D <= t <= smoothTime + 0.5, D being the
\* item's own duration, in the stored order: the first pass never drops an
\* item the exact test keeps.  With show off the overlay is empty.
C16_TwoPassEqualsExactFilter ==
    LET exact(d) == danmakuSettings.show /\ InExactWindow(d, smoothTime, danmakuSettings)
    IN Uids(activeOverlayDanmaku) = Uids(SelectSeq(danmakuData, exact))

\* C16 witness: the first pass kept an item that the second pass dropped, and
\* an item passed both
C16_Witness ==
    /\ activeOverlayDanmaku # <<>>
    /\ Len(ActiveOverlayFirstPassOnly(danmakuData, smoothTime, danmakuSettings))
          > Len(activeOverlayDanmaku)

\* C17 as stated: every visible item has progress within [0, 1).
C17_ProgressInUnitInterval ==
    \A i \in DOMAIN activeOverlayDanmaku :
       LET progress == OverlayItem(activeOverlayDanmaku[i], smoothTime).progress
       IN progress.n >= 0 /\ progress.n < progress.d

\* C17 as amended: every visible item has progress = (smoothTime - t) / D with
\* -0.5 / D <= progress <= 1: an item enters the list up to 0.5 s before its
\* time (progress below 0) and is still in it when smoothTime = t + D (progress 1).
C17_ProgressWithLookAhead ==
    \A i \in DOMAIN activeOverlayDanmaku :
       LET d == activeOverlayDanmaku[i]
           progress == OverlayItem(d, smoothTime).progress
       IN /\ progress.d > 0
          /\ progress.n <= progress.d
          /\ RLe(Rat(-1, 2), RMul(progress, d.actualDuration))
          /\ progress.n * DurationNumerator * UnitsPerSecond
                = progress.d * (smoothTime - d.time)
                    * DurationDenominator(d.content, danmakuSettings)

\* C17 witness: one visible item at progress 1 and one before its time
C17_Witness ==
    /\ \E i \in DOMAIN activeOverlayDanmaku :
          REq(OverlayItem(activeOverlayDanmaku[i], smoothTime).progress, Rat(1, 1))
    /\ \E i \in DOMAIN activeOverlayDanmaku :
          OverlayItem(activeOverlayDanmaku[i], smoothTime).progress.n < 0

\* C18: the position of a visible item is 100 - 200 x progress (in % of the
\* viewport width): +100 when smoothTime = t, -100 when smoothTime = t + D; the
\* item with t = 10 s and D = 16 s has progress 0 at 10 s and progress 1 at 26 s.
C18_PositionLinearInProgress ==
    \A i \in DOMAIN activeOverlayDanmaku :
       LET d == activeOverlayDanmaku[i]
           item == OverlayItem(d, smoothTime)
           alive == (smoothTime - d.time) * DurationDenominator(d.content, danmakuSettings)
           full == DurationNumerator * UnitsPerSecond
       IN /\ item.currentX.d > 0
          /\ item.currentX.n * full = item.currentX.d * (100 * full - 200 * alive)
          /\ smoothTime = d.time => REq(item.currentX, Rat(100, 1))
          /\ alive = full => REq(item.currentX, Rat(-100, 1))
          /\ (d.time = 10 * UnitsPerSecond /\ REq(d.actualDuration, Rat(16, 1))) =>
                /\ smoothTime = 10 * UnitsPerSecond => REq(item.progress, Rat(0, 1))
                /\ smoothTime = 26 * UnitsPerSecond => REq(item.progress, Rat(1, 1))

\* C18 witness: the item with t = 10 s and D = 16 s is visible at 26 s, at -100
C18_Witness ==
    /\ smoothTime = 26 * UnitsPerSecond
    /\ \E i \in DOMAIN activeOverlayDanmaku :
          /\ activeOverlayDanmaku[i].time = 10 * UnitsPerSecond
          /\ REq(activeOverlayDanmaku[i].actualDuration, Rat(16, 1))
          /\ REq(OverlayItem(activeOverlayDanmaku[i], smoothTime).currentX, Rat(-100, 1))

----------------------------------------------------------------------------
(* Claims about the colour of an overlay item, checked under SpecC *)

\* the value of a lower-case hexadecimal digit
DigitValue(ch) == CHOOSE v \in 0..15 : HexDigits[v + 1] = ch

RECURSIVE HexValue(_)
\* the number a sequence of hexadecimal digits writes
HexValue(digits) ==
    IF digits = <<>> THEN 0
    ELSE 16 * HexValue(SubSeq(digits, 1, Len(digits) - 1)) + DigitValue(digits[Len(digits)])

LowerHex == {HexDigits[i] : i \in DOMAIN HexDigits}

\* C21: the rendered colour of an item is '#ffffff' when its packed colour is
\* 16777215, and otherwise '#' followed by the packed integer in lower-case
\* hexadecimal, left-padded with zeros to 6 digits; colour 255 renders as
\* '#0000ff'; for every packed colour in 0..16777215 the result has exactly 6
\* hexadecimal digits.
C21_ColorHexSixDigits ==
    colorHex # <<>> =>
       /\ Len(colorHex) = 7
       /\ colorHex[1] = "#"
       /\ \A i \in 2..7 : colorHex[i] \in LowerHex
       /\ HexValue(Tail(colorHex)) = color
       /\ color = White => colorHex = <<"#", "f", "f", "f", "f", "f", "f">>
       /\ color = 255 => colorHex = <<"#", "0", "0", "0", "0", "f", "f">>

\* C21 witness: colour 255 has been rendered, with four zeros of padding
C21_Witness ==
    /\ color = 255
    /\ colorHex = <<"#", "0", "0", "0", "0", "f", "f">>
    /\ Len(ToString16(color)) = 2

----------------------------------------------------------------------------
(* Claims about the settings object, checked under SpecG *)

\* the recognized bounds of the settings fields
InRecognizedBounds(settings) ==
    /\ DOMAIN settings = SettingsFields
    /\ settings.show \in BOOLEAN
    /\ settings.opacity \in 1..TenthScale
    /\ settings.size \in (TenthScale \div 2)..(2 * TenthScale)
    /\ settings.speed \in (SpeedScale \div 2)..(2 * SpeedScale)
    /\ settings.playbackRate \in 1..(3 * SpeedScale)
    /\ settings.longPressRate \in {2, 3}

\* C22: at all times the active settings object satisfies the recognized
\* bounds (opacity in [0.1,1.0], size in [0.5,2.0], speed in [0.5,2.0],
\* playbackRate in [0.25,3.0], longPressRate in {2.0,3.0}, show boolean), for
\* settings restored from storage as well as for settings changed through the
\* controls.
C22_SettingsWithinBounds == mounted => InRecognizedBounds(danmakuSettings)

----------------------------------------------------------------------------
(* Claims about the session grouping, checked under SpecF *)

\* the session that holds file i
SessionOf(i) == CHOOSE k \in DOMAIN sessions : \E j \in DOMAIN sessions[k] : sessions[k][j] = i

\* minutes from the end of file i to the timestamp of file i + 1
GapAfter(i) == files[i + 1].timestamp - (files[i].timestamp + files[i].duration)

\* C23: consecutive files of one room are merged into the same session exactly
\* when their titles match and the gap between the prior file's end
\* (timestamp + duration) and the next file's timestamp is below 60 minutes:
\* identical titles with a 59-minute gap give one session, a 61-minute gap
\* gives two sessions.
C23_MergedExactlyWhenCloseAndSameTitle ==
    sessions # <<>> =>
       /\ \A i \in DOMAIN files : \E k \in DOMAIN sessions : \E j \in DOMAIN sessions[k] :
             sessions[k][j] = i
       /\ \A i \in 1..(Len(files) - 1) :
             /\ (SessionOf(i) = SessionOf(i + 1))
                   <=> (files[i].title = files[i + 1].title /\ GapAfter(i) < 60)
             /\ SessionOf(i + 1) \in {SessionOf(i), SessionOf(i) + 1}
       /\ (Len(files) = 2 /\ files[1].title = files[2].title /\ GapAfter(1) = 59)
             => Len(sessions) = 1
       /\ (Len(files) = 2 /\ files[1].title = files[2].title /\ GapAfter(1) = 61)
             => Len(sessions) = 2

\* C23 witness: three files of one title, the second 59 minutes after the
\* first, the third 61 minutes after the second, grouped into two sessions
C23_Witness ==
    /\ Len(files) = 3
    /\ files[1].title = files[2].title /\ files[2].title = files[3].title
    /\ GapAfter(1) = 59
    /\ GapAfter(2) = 61
    /\ sessions = <<<<1, 2>>, <<3>>>>

----------------------------------------------------------------------------
(* Claims about a stored history that cannot be read or written, checked   *)
(* under SpecE *)

\* C24: a failure while reading or writing stored history is isolated: if the
\* stored history value cannot be parsed or the write fails, saveHistory leaves
\* the stored value unchanged and changes no player state (the handler that
\* called it still does its own work), and the history load on open falls back
\* to starting at segment 0, time 0; in neither case is playback aborted (the
\* Player stays mounted until it is left).
C24_HistoryFailureIsolated ==
    [][/\ history' = history
       /\ storage' = storage
       /\ saveHistory(history, PlayerSession, vTime, currentSegmentIndex, now) = history
       /\ (lastEvent' = "mount" /\ storage = "unparseable") =>
             /\ currentSegmentIndex' = 0
             /\ currentTime' = 0
             /\ smoothTime' = 0
             /\ initialSeekTimeRef' = Null
       /\ lastEvent' = "mount" => (mounted' /\ isPlaying')
       /\ lastEvent' = "pause" => (~isPlaying' /\ vTime' = vTime)
       /\ lastEvent' = "seek" => (vTime' \in SeekTargets /\ smoothTime' = vTime')
       /\ (mounted /\ lastEvent' # "unmount") => mounted'
      ]_vars

\* C24 witness: the Player was opened over a history that cannot be parsed,
\* played, and was paused (a save that failed); it is still mounted, at the
\* position it was paused at
C24_Witness ==
    /\ storage = "unparseable"
    /\ mounted
    /\ lastEvent = "pause"
    /\ ~isPlaying
    /\ vTime > 0
    /\ history = <<>>

----------------------------------------------------------------------------
(* Claims about the App component, checked under SpecA *)

\* the steps of a call of handleDirectoryHandleSelected or handleFilesSelected,
\* each begun by a click or a file choice of the user
UserSteps ==
    {"selectDirectory", "requestPermission", "showPicker", "permissionGranted",
     "permissionDenied", "permissionFailed", "picked", "pickerAborted", "pickerFailed",
     "handleReadFailed", "selectFiles"}

\* C25: on startup with a stored directory handle, files are loaded
\* automatically only if read permission is already granted; otherwise
\* needsPermissionGrant is set and no scan, permission request or picker is
\* started without a user action.  needsPermissionGrant becomes false only
\* through a successful load, and a denied or failed permission never crashes
\* the app (the handler ends in its catch and the view stays as it was).
C25_AutoLoadOnlyWhenGranted ==
    [][/\ (autoLoad /\ ~autoLoad') =>
             /\ started' # started => (directoryHandle # Null /\ permission = "granted")
             /\ (lastEvent' # "autoLoadFailed" /\ directoryHandle # Null
                    /\ permission # "granted")
                   => (needsPermissionGrant' /\ loads' = loads /\ started' = started)
             /\ selecting' = selecting
       /\ (started' # started \/ selecting'.request > selecting.request
              \/ selecting'.picker > selecting.picker)
             => \/ (autoLoad /\ directoryHandle # Null /\ permission = "granted")
                \/ lastEvent' \in UserSteps
       /\ lastEvent' \in {"requestPermission", "showPicker"} => selecting.get > 0
       /\ selecting'.get > selecting.get => lastEvent' = "selectDirectory"
       /\ (needsPermissionGrant /\ ~needsPermissionGrant')
             => (lastEvent' = "loaded" /\ streamers' \in {l.id : l \in loads})
       /\ lastEvent' \in {"needsGrant", "autoLoadFailed", "permissionDenied",
                          "permissionFailed", "pickerAborted", "pickerFailed"}
             => UNCHANGED <<viewState, streamers, selectedStreamer, selectedSession,
                            isLoading, loads>>
      ]_vars

\* C25 witness: the App started with a stored handle whose permission is not
\* granted: needsPermissionGrant is set, nothing was started
C25_Witness ==
    /\ lastEvent = "needsGrant"
    /\ directoryHandle # Null
    /\ permission # "granted"
    /\ needsPermissionGrant
    /\ started = 0
    /\ Selecting = 0

\* C26: a failed directory load (scan or grouping throws) leaves the streamer
\* list and needsPermissionGrant unchanged, and isLoading is false again after
\* every load attempt, whether it succeeded or failed.
C26_FailedLoadLeavesList ==
    [][(loads' # loads /\ loads' \subseteq loads) =>
          /\ ~isLoading'
          /\ lastEvent' \in {"loaded", "loadFailed"}
          /\ lastEvent' = "loadFailed" =>
                (streamers' = streamers /\ needsPermissionGrant' = needsPermissionGrant)
      ]_vars

\* C26 witness: a load failed after an earlier one had set the list and
\* needsPermissionGrant was set; both are as they were
C26_Witness ==
    /\ lastEvent = "loadFailed"
    /\ streamers # 0
    /\ needsPermissionGrant
    /\ ~isLoading

\* C27: isLoading is true whenever at least one load is in flight: when two
\* loads overlap, the completion of one of them does not clear isLoading while
\* the other is still running, and the streamer list finally shown is the
\* result of the load that was started last (a load started earlier does not
\* replace it).
C27_LoadingWhileAnyLoadInFlight ==
    [][/\ loads' # {} => isLoading'
       /\ (streamers = started /\ started' = started) => streamers' = started
      ]_vars

\* the view the App renders
ViewRendered(view) ==
    \/ view = "HOME" /\ viewState = "HOME"
    \/ view = "STREAMER" /\ viewState = "STREAMER" /\ selectedStreamer # NoStreamer
    \/ view = "PLAYER" /\ viewState = "PLAYER" /\ selectedSession # NoSession

\* C28: in every reachable state of the navigation (HOME, STREAMER, PLAYER)
\* exactly one view is rendered: viewState = STREAMER implies a streamer is
\* selected, and viewState = PLAYER implies both a session and a streamer are
\* selected, so that going back from PLAYER always lands on the streamer page
\* of the same streamer and going back from STREAMER lands on HOME.
C28_ExactlyOneViewRendered ==
    /\ [](/\ Cardinality({view \in {"HOME", "STREAMER", "PLAYER"} : ViewRendered(view)}) = 1
          /\ viewState = "STREAMER" => selectedStreamer # NoStreamer
          /\ viewState = "PLAYER" =>
                /\ selectedSession # NoSession
                /\ selectedStreamer # NoStreamer
                /\ selectedSession.list = selectedStreamer.list
                /\ selectedSession.room = selectedStreamer.room)
    /\ [][/\ lastEvent' = "backToStreamer" =>
                /\ viewState = "PLAYER"
                /\ viewState' = "STREAMER"
                /\ selectedStreamer' = selectedStreamer
                /\ selectedStreamer'.room = selectedSession.room
          /\ lastEvent' = "backToHome" =>
                (viewState = "STREAMER" /\ viewState' = "HOME")
         ]_vars

\* C28 witness: back on the streamer page of streamer 2 after its session 1 was
\* played, while the list on the Home page has been replaced by a later load
C28_Witness ==
    /\ lastEvent = "backToStreamer"
    /\ viewState = "STREAMER"
    /\ selectedStreamer.room = 2
    /\ selectedSession = NoSession
    /\ streamers # selectedStreamer.list

====
